---- MODULE Spec2Model ----
(***************************************************************************)
(* Marginalia (obsidian-marginalia): anchor resolution engine, comment     *)
(* store and path index.                                                   *)
(*                                                                         *)
(* Strings are sequences of one-character strings.  Offsets are zero-based *)
(* as in the TypeScript source; SubSeq indices are shifted by one.         *)
(***************************************************************************)
EXTENDS Integers, Sequences, FiniteSets, TLC

VARIABLES
    target,       \* CommentTarget handed to resolveAnchor / needle of fuzzyMatch
    docText,      \* document text handed to resolveAnchor / haystack of fuzzyMatch
    threshold,    \* fuzzyMatchThreshold as a fraction <<num, den>>
    result,       \* outcome of the last call
    pc,           \* "start" | "resolved" | "matched" | "store"
    notes,        \* vault: paths of the markdown notes that exist
    mappings,     \* PathIndex.data.mappings: note path -> comment file name
    indexFile,    \* content last written to <basePath>/_index.json
    cache,        \* CommentStore.cache: note path -> CommentFile
    files,        \* adapter: comment file name -> CommentFile last written
    writeTimers,  \* CommentStore.writeTimers: note paths with a pending save
    nextId,       \* number of ids generateId has handed out, plus one
    lastPass,     \* the resolveAnchors pass or the handleDelete call that has
                  \* just completed, if any
    adapterLog,   \* the write, remove and mkdir calls issued to the adapter
    anchors,      \* navigation: the resolved anchors, in the order of the map
    cursor,       \* navigation: offset of the editor cursor
    tasks,        \* store calls in flight: where each one stands and the
                  \* CommentFile object it holds
    heap,         \* the CommentFile objects the in-flight calls refer to
    resolveDebounceTimer,  \* main.ts: path the pending re-resolve timer was
                           \* armed with, or NoTimer
    activeFile    \* workspace.getActiveFile(): path of the note in the editor

engineVars == <<target, docText, threshold, result, pc>>
navVars == <<anchors, cursor>>
asyncVars == <<tasks, heap, resolveDebounceTimer, activeFile>>
storeVars == <<notes, mappings, indexFile, cache, files, writeTimers, nextId, lastPass,
               adapterLog>>
vars == <<target, docText, threshold, result, pc,
          notes, mappings, indexFile, cache, files, writeTimers, nextId, lastPass,
          adapterLog, anchors, cursor,
          tasks, heap, resolveDebounceTimer, activeFile>>

----------------------------------------------------------------------------
(* Bounds of the model *)

MaxDocLen == 3      \* longest document text of the resolver runs
MaxExactLen == 2    \* longest target.exact of the resolver runs
MaxCtxLen == 1      \* longest recorded prefix / suffix
MaxNeedleLen == 3   \* longest needle of the fuzzyMatch runs
MaxHayLen == 4      \* longest haystack of the fuzzyMatch runs
MaxComments == 3    \* comments created in one run of the store
MaxLevLen == 3      \* longest argument of the levenshteinDistance runs
MaxScoreLen == 2    \* longest recorded prefix / suffix of the scoreContext runs
MaxTasks == 2       \* store calls started together on one note
MaxSaved == 2       \* comments made on the note of the save timer runs

----------------------------------------------------------------------------
(* Generic helpers *)

Min(a, b) == IF a < b THEN a ELSE b
Max(a, b) == IF a > b THEN a ELSE b

StrUpTo(S, n) == UNION {[1..k -> S] : k \in 0..n}

IsSpace(c) == c \in {" ", "\n", "\t"}

\* String.prototype.substring(start, end): both arguments are clamped to
\* [0, length] and swapped when start > end.
Substring(s, start, end) ==
    LET n  == Len(s)
        a  == Max(0, Min(start, n))
        b  == Max(0, Min(end, n))
        lo == Min(a, b)
        hi == Max(a, b)
    IN  SubSeq(s, lo + 1, hi)

\* s starts with pat at zero-based offset i
MatchesAt(s, pat, i) ==
    /\ i >= 0
    /\ i + Len(pat) <= Len(s)
    /\ SubSeq(s, i + 1, i + Len(pat)) = pat

\* String.prototype.indexOf(pat, fromIdx): -1 when there is no occurrence
IndexOf(s, pat, fromIdx) ==
    LET f    == Max(0, Min(fromIdx, Len(s)))
        hits == {i \in f..Len(s) : MatchesAt(s, pat, i)}
    IN  IF hits = {} THEN -1
        ELSE CHOOSE i \in hits : \A j \in hits : i <= j

\* docText.split('\n')
RECURSIVE SplitLines(_)
SplitLines(s) ==
    LET nl == IndexOf(s, <<"\n">>, 0)
    IN  IF nl = -1 THEN <<s>>
        ELSE <<SubSeq(s, 1, nl)>> \o SplitLines(SubSeq(s, nl + 2, Len(s)))

\* sum of lines[i].length + 1 for i in lo..hi-1 (zero-based line numbers)
RECURSIVE LineSpan(_, _, _)
LineSpan(lines, lo, hi) ==
    IF lo >= hi THEN 0
    ELSE Len(lines[lo + 1]) + 1 + LineSpan(lines, lo + 1, hi)

----------------------------------------------------------------------------
(* anchoring/FuzzyMatcher (TextQuoteSelector.ts lines 178-314) *)

\* text.replace(/\s+/g, ' '): every maximal whitespace run becomes one space
RECURSIVE CollapseSpaces(_, _)
CollapseSpaces(s, prevWasSpace) ==
    IF s = <<>> THEN <<>>
    ELSE IF IsSpace(Head(s))
         THEN (IF prevWasSpace THEN <<>> ELSE <<" ">>) \o CollapseSpaces(Tail(s), TRUE)
         ELSE <<Head(s)>> \o CollapseSpaces(Tail(s), FALSE)

\* number of leading whitespace characters (text.length - text.trimStart().length)
RECURSIVE LeadingSpaces(_)
LeadingSpaces(s) ==
    IF s # <<>> /\ IsSpace(Head(s)) THEN 1 + LeadingSpaces(Tail(s)) ELSE 0

RECURSIVE TrailingSpaces(_)
TrailingSpaces(s) ==
    IF s # <<>> /\ IsSpace(s[Len(s)]) THEN 1 + TrailingSpaces(SubSeq(s, 1, Len(s) - 1)) ELSE 0

Trim(s) ==
    IF LeadingSpaces(s) = Len(s) THEN <<>>
    ELSE SubSeq(s, LeadingSpaces(s) + 1, Len(s) - TrailingSpaces(s))

normalizeWhitespace(text) == Trim(CollapseSpaces(text, FALSE))

\* one row of the two-row dynamic program: curr[0] = j, then curr[i] for i = 1..aLen.
\* Rows are sequences indexed from 1, so row[i + 1] is the source's row[i].
RECURSIVE LevRow(_, _, _, _, _)
LevRow(a, b, j, prev, curr) ==
    LET i == Len(curr)
    IN  IF i > Len(a) THEN curr
        ELSE LET cost == IF a[i] = b[j] THEN 0 ELSE 1
                 v    == Min(Min(curr[i] + 1, prev[i + 1] + 1), prev[i] + cost)
             IN  LevRow(a, b, j, prev, Append(curr, v))

RECURSIVE LevRows(_, _, _, _)
LevRows(a, b, j, prev) ==
    IF j > Len(b) THEN prev
    ELSE LevRows(a, b, j + 1, LevRow(a, b, j, prev, <<j>>))

\* levenshteinDistance reading the row that the last swap put aside
levenshteinDistance_StaleRow(a0, b0) ==
    IF a0 = b0 THEN 0
    ELSE IF Len(a0) = 0 THEN Len(b0)
    ELSE IF Len(b0) = 0 THEN Len(a0)
    ELSE LET a == IF Len(a0) > Len(b0) THEN b0 ELSE a0
             b == IF Len(a0) > Len(b0) THEN a0 ELSE b0
             first == [i \in 1..(Len(a) + 1) |-> i - 1]
         IN  LevRows(a, SubSeq(b, 1, Len(b) - 1), 1, first)[Len(a) + 1]

levenshteinDistance(a0, b0) ==
    IF a0 = b0 THEN 0
    ELSE IF Len(a0) = 0 THEN Len(b0)
    ELSE IF Len(b0) = 0 THEN Len(a0)
    ELSE LET a == IF Len(a0) > Len(b0) THEN b0 ELSE a0
             b == IF Len(a0) > Len(b0) THEN a0 ELSE b0
             first == [i \in 1..(Len(a) + 1) |-> i - 1]
         IN  LevRows(a, b, 1, first)[Len(a) + 1]

NoMatch == [kind |-> "null"]

\* Math.floor(n * threshold) for a threshold num/den
MaxDistance(n, thr) == (n * thr[1]) \div thr[2]

\* FuzzyStep without the budget test (dist > maxDistance) continue
FuzzyStep_NoBudget(nn, nh, maxDistance, winLen, i, best) ==
    LET candidate == Substring(nh, i, i + winLen)
        dist      == levenshteinDistance(nn, candidate)
    IN  IF best = NoMatch \/ dist < best.distance
        THEN [kind |-> "match", index |-> i, length |-> winLen, distance |-> dist]
        ELSE best

\* FuzzyStep that lets a later window of equal distance replace the best
FuzzyStep_LastWins(nn, nh, maxDistance, winLen, i, best) ==
    LET candidate == Substring(nh, i, i + winLen)
        dist      == levenshteinDistance(nn, candidate)
    IN  IF dist > maxDistance THEN best
        ELSE IF best = NoMatch \/ dist <= best.distance
             THEN [kind |-> "match", index |-> i, length |-> winLen, distance |-> dist]
             ELSE best

\* FuzzyStep that keeps the first window within the budget
FuzzyStep_KeepsFirst(nn, nh, maxDistance, winLen, i, best) ==
    LET candidate == Substring(nh, i, i + winLen)
        dist      == levenshteinDistance(nn, candidate)
    IN  IF dist > maxDistance THEN best
        ELSE IF best = NoMatch
             THEN [kind |-> "match", index |-> i, length |-> winLen, distance |-> dist]
             ELSE best

\* the window accepted at (winLen, i), or the best so far
FuzzyStep(nn, nh, maxDistance, winLen, i, best) ==
    LET candidate == Substring(nh, i, i + winLen)
        dist      == levenshteinDistance(nn, candidate)
    IN  IF dist > maxDistance THEN best
        ELSE IF best = NoMatch \/ dist < best.distance
             THEN [kind |-> "match", index |-> i, length |-> winLen, distance |-> dist]
             ELSE best

\* the two nested loops of fuzzyMatch, leaving as soon as a zero-distance
\* window has been recorded
RECURSIVE FuzzyScan(_, _, _, _, _, _, _)
FuzzyScan(nn, nh, maxDistance, maxWin, winLen, i, best) ==
    IF winLen > maxWin THEN best
    ELSE IF i > Len(nh) - winLen
         THEN FuzzyScan(nn, nh, maxDistance, maxWin, winLen + 1, 0, best)
         ELSE LET nxt == FuzzyStep(nn, nh, maxDistance, winLen, i, best)
              IN  IF nxt # NoMatch /\ nxt.distance = 0 THEN nxt
                  ELSE FuzzyScan(nn, nh, maxDistance, maxWin, winLen, i + 1, nxt)

fuzzyMatch(needle, haystack, thr) ==
    LET normalizedNeedle   == normalizeWhitespace(needle)
        normalizedHaystack == normalizeWhitespace(haystack)
        n                  == Len(normalizedNeedle)
        maxDistance        == MaxDistance(n, thr)
        minWindow          == Max(1, n - maxDistance)
        maxWindow          == n + maxDistance
    IN  IF n = 0 THEN NoMatch
        ELSE FuzzyScan(normalizedNeedle, normalizedHaystack, maxDistance,
                       Min(maxWindow, Len(normalizedHaystack)), minWindow, 0, NoMatch)

\* the walk of fuzzyMatchInOriginal over the original text; st is the loop state
RECURSIVE MapWalk(_, _, _)
MapWalk(originalText, res, st) ==
    IF ~(st.originalIdx < Len(originalText) /\ st.normalizedIdx < res.index + res.length)
    THEN st
    ELSE LET ch      == originalText[st.originalIdx + 1]
             isSpace == IsSpace(ch)
             counts  == IF isSpace THEN (~st.prevWasSpace /\ st.normalizedIdx > 0) ELSE TRUE
             start1  == IF counts /\ st.normalizedIdx = res.index
                        THEN st.originalIdx ELSE st.matchStart
             nIdx1   == IF counts THEN st.normalizedIdx + 1 ELSE st.normalizedIdx
             end1    == IF nIdx1 = res.index + res.length /\ st.matchEnd = -1
                        THEN st.originalIdx + (IF isSpace THEN 0 ELSE 1)
                        ELSE st.matchEnd
         IN  MapWalk(originalText, res,
                     [originalIdx   |-> st.originalIdx + 1,
                      normalizedIdx |-> nIdx1,
                      prevWasSpace  |-> isSpace,
                      matchStart    |-> start1,
                      matchEnd      |-> end1])

\* fuzzyMatchInOriginal answering with the offsets of the normalized text
fuzzyMatchInOriginal_Unmapped(needle, originalText, thr) ==
    fuzzyMatch(needle, normalizeWhitespace(originalText), thr)

fuzzyMatchInOriginal(needle, originalText, thr) ==
    LET normalizedText == normalizeWhitespace(originalText)
        res            == fuzzyMatch(needle, normalizedText, thr)
    IN  IF res = NoMatch THEN NoMatch
        ELSE LET fin == MapWalk(originalText, res,
                                [originalIdx   |-> LeadingSpaces(originalText),
                                 normalizedIdx |-> 0,
                                 prevWasSpace  |-> FALSE,
                                 matchStart    |-> -1,
                                 matchEnd      |-> -1])
                 matchEnd == IF fin.matchEnd = -1 THEN fin.originalIdx ELSE fin.matchEnd
             IN  IF fin.matchStart = -1 THEN NoMatch
                 ELSE [kind |-> "match", index |-> fin.matchStart,
                       length |-> matchEnd - fin.matchStart, distance |-> res.distance]

----------------------------------------------------------------------------
(* anchoring/TextQuoteSelector.ts lines 4-176 *)

\* lineHint?: number -- an absent hint is encoded as -1 (hints are >= 0)
NoHint == -1
\* headingContext?: string -- an absent (or empty, falsy) heading context
NoHeading == <<>>

\* half-width of the line-hint window of stage 1
HintWindow == 20

Null == [kind |-> "null"]
\* TypeError raised by lines[i]!.length when lines[i] is undefined
Throw == [kind |-> "throw"]

Anchor(from, to, line, stage) ==
    [kind |-> "anchor", from |-> from, to |-> to, line |-> line, stage |-> stage]

\* number of '\n' among text[0 .. min(offset, length))
computeLineNumber(text, offset) ==
    Cardinality({i \in 1..Min(offset, Len(text)) : text[i] = "\n"})

\* A score is a JavaScript number: NaN, or the fraction num / den (den > 0).
Score(num, den) == [nan |-> FALSE, num |-> num, den |-> den]
NaN == [nan |-> TRUE, num |-> 0, den |-> 1]
ScoreAdd(x, y) ==
    IF x.nan \/ y.nan THEN NaN
    ELSE Score(x.num * y.den + y.num * x.den, x.den * y.den)
\* x < y ; false whenever a NaN is involved
ScoreLess(x, y) == ~x.nan /\ ~y.nan /\ x.num * y.den < y.num * x.den
ScoreEq(x, y) == ~x.nan /\ ~y.nan /\ x.num * y.den = y.num * x.den

\* length of the common run of characters counted from the ends of both strings
RECURSIVE TrailingRun(_, _, _, _)
TrailingRun(e, a, i, minLen) ==
    IF i < minLen /\ e[Len(e) - i] = a[Len(a) - i]
    THEN TrailingRun(e, a, i + 1, minLen)
    ELSE i

computeOverlapScore(expected, actual) ==
    IF Len(actual) = 0 \/ Len(expected) = 0 THEN Score(0, 1)
    ELSE LET normExpected == normalizeWhitespace(expected)
             normActual   == normalizeWhitespace(actual)
             minLen       == Min(Len(normExpected), Len(normActual))
             matching     == TrailingRun(normExpected, normActual, 0, minLen)
         IN  IF normExpected = normActual THEN Score(2, 1)
             ELSE IF minLen = 0 THEN NaN          \* 0 / 0
             ELSE Score(matching, minLen)

\* /^(#{1,6}\s+.*)$/gm tried at line start p of text: the end offset of the
\* match, or -1.  #{1,6} must be followed by whitespace; \s+ takes the whole
\* whitespace run (newlines included) and .* the rest of the line it ends on.
InClass(c, cls) ==
    CASE cls = "hash"  -> c = "#"
      [] cls = "space" -> IsSpace(c)
      [] OTHER         -> c # "\n"

\* end of the maximal run of characters of class cls that starts at offset p
RECURSIVE RunEnd(_, _, _)
RunEnd(text, p, cls) ==
    IF p < Len(text) /\ InClass(text[p + 1], cls) THEN RunEnd(text, p + 1, cls) ELSE p

HeadingEnd(text, p) ==
    LET h == RunEnd(text, p, "hash")
        w == RunEnd(text, h, "space")
    IN  IF h - p >= 1 /\ h - p <= 6 /\ w > h
        THEN RunEnd(text, w, "line")
        ELSE -1

\* the regex loop of findHeadingContext from search position p on
RECURSIVE LastHeading(_, _, _)
LastHeading(text, p, last) ==
    IF p > Len(text) THEN last
    ELSE LET atLineStart == p = 0 \/ text[p] = "\n"
             e           == IF atLineStart THEN HeadingEnd(text, p) ELSE -1
         IN  IF e # -1
             THEN LastHeading(text, e, SubSeq(text, p + 1, e))
             ELSE LastHeading(text, p + 1, last)

\* the last heading before offset, or the empty string for null
findHeadingContext(text, offset) ==
    LastHeading(Substring(text, 0, offset), 0, <<>>)

scoreContext(tgt, doc, matchFrom, matchTo) ==
    LET p == IF tgt.prefix # <<>>
             THEN computeOverlapScore(tgt.prefix,
                      Substring(doc, Max(0, matchFrom - Len(tgt.prefix)), matchFrom))
             ELSE Score(0, 1)
        s == IF tgt.suffix # <<>>
             THEN computeOverlapScore(tgt.suffix,
                      Substring(doc, matchTo, Min(Len(doc), matchTo + Len(tgt.suffix))))
             ELSE Score(0, 1)
        heading == findHeadingContext(doc, matchFrom)
        h == IF /\ tgt.headingContext # NoHeading
                /\ heading # <<>>
                /\ normalizeWhitespace(heading) = normalizeWhitespace(tgt.headingContext)
             THEN Score(2, 1)
             ELSE Score(0, 1)
    IN  ScoreAdd(ScoreAdd(p, s), h)

resolveStage1(tgt, doc) ==
    IF tgt.lineHint = NoHint THEN Null
    ELSE LET lines     == SplitLines(doc)
             startLine == Max(0, tgt.lineHint - HintWindow)
             endLine   == Min(Len(lines), tgt.lineHint + HintWindow + 1)
         IN  IF startLine > Len(lines) THEN Throw     \* lines[lines.length].length
             ELSE LET regionStart == LineSpan(lines, 0, startLine)
                      regionEnd   == Min(regionStart + LineSpan(lines, startLine, endLine),
                                         Len(doc))
                      region      == Substring(doc, regionStart, regionEnd)
                      idx         == IndexOf(region, tgt.exact, 0)
                      absoluteFrom == regionStart + idx
                  IN  IF idx = -1 THEN Null
                      ELSE Anchor(absoluteFrom, absoluteFrom + Len(tgt.exact),
                                  computeLineNumber(doc, absoluteFrom), 1)

\* the occurrences pushed by the while loop of resolveStage2, in scan order
RECURSIVE Candidates(_, _, _)
Candidates(tgt, doc, searchFrom) ==
    IF ~(searchFrom < Len(doc)) THEN <<>>
    ELSE LET idx == IndexOf(doc, tgt.exact, searchFrom)
         IN  IF idx = -1 THEN <<>>
             ELSE <<[from  |-> idx, to |-> idx + Len(tgt.exact),
                     score |-> scoreContext(tgt, doc, idx, idx + Len(tgt.exact))]>>
                  \o Candidates(tgt, doc, idx + 1)

\* The comparator (a, b) => b.score - a.score of resolveStage2: a NaN
\* difference counts as 0 (a tie).  It is a consistent comparator unless a NaN
\* score stands next to two different numeric scores (it then ties the NaN
\* with both, which differ).
Inconsistent(cands) ==
    /\ \E k \in 1..Len(cands) : cands[k].score.nan
    /\ \E j, k \in 1..Len(cands) : ScoreLess(cands[j].score, cands[k].score)

\* candidates.sort(...)[0].  The sort is stable: among the candidates that no
\* candidate beats it puts first the earliest one; with a NaN score and all
\* numeric scores equal that is the first candidate.  With an inconsistent
\* comparator the order is implementation-defined: oracle chooses the first
\* element.
SortedFirst(cands, oracle) ==
    IF Inconsistent(cands)
    THEN cands[(oracle % Len(cands)) + 1]
    ELSE LET best == {k \in 1..Len(cands) :
                        \A j \in 1..Len(cands) : ~ScoreLess(cands[k].score, cands[j].score)}
         IN  cands[CHOOSE k \in best : \A j \in best : k <= j]

\* what an inconsistent comparator may put first: any candidate
Oracles(tgt, doc) ==
    LET cands == Candidates(tgt, doc, 0)
    IN  IF Inconsistent(cands) THEN 0..(Len(cands) - 1) ELSE {0}

resolveStage2(tgt, doc, oracle) ==
    LET candidates == Candidates(tgt, doc, 0)
    IN  IF Len(candidates) = 0 THEN Null
        ELSE LET best == SortedFirst(candidates, oracle)
             IN  Anchor(best.from, best.to, computeLineNumber(doc, best.from), 2)

resolveStage3(tgt, doc, thr) ==
    LET res == fuzzyMatchInOriginal(tgt.exact, doc, thr)
    IN  IF res = NoMatch THEN Null
        ELSE LET from == res.index
                 to   == from + res.length
                 contextScore == scoreContext(tgt, doc, from, to)
             IN  IF ScoreLess(contextScore, Score(0, 1)) THEN Null
                 ELSE Anchor(from, to, computeLineNumber(doc, from), 3)

\* resolveAnchor consulting the context-scored search before the line hint
resolveAnchor_Stage2First(tgt, doc, thr, oracle) ==
    LET stage1 == resolveStage1(tgt, doc)
        stage2 == resolveStage2(tgt, doc, oracle)
    IN  IF stage2 # Null THEN stage2
        ELSE IF stage1 # Null THEN stage1
        ELSE resolveStage3(tgt, doc, thr)

resolveAnchor(tgt, doc, thr, oracle) ==
    LET stage1 == resolveStage1(tgt, doc)
        stage2 == resolveStage2(tgt, doc, oracle)
    IN  IF stage1 # Null THEN stage1       \* an anchor, or the exception propagating
        ELSE IF stage2 # Null THEN stage2
        ELSE resolveStage3(tgt, doc, thr)

----------------------------------------------------------------------------
(* storage/PathIndex.ts *)

Has(f, k) == k \in DOMAIN f
Put(f, k, v) == [x \in (DOMAIN f) \cup {k} |-> IF x = k THEN v ELSE f[x]]
Remove(f, k) == [x \in (DOMAIN f) \ {k} |-> f[x]]

\* notePath.replace(/\//g, '__')
RECURSIVE ReplaceSlashes(_)
ReplaceSlashes(path) ==
    IF path = <<>> THEN <<>>
    ELSE (IF Head(path) = "/" THEN <<"_", "_">> ELSE <<Head(path)>>)
         \o ReplaceSlashes(Tail(path))

\* the file name getOrCreateCommentFileName gives a path that has none yet
NewCommentFileName(notePath) ==
    ReplaceSlashes(notePath) \o <<".", "j", "s", "o", "n">>

\* the mappings after getOrCreateCommentFileName(notePath)
getOrCreateCommentFileName(m, notePath) ==
    IF Has(m, notePath) THEN m
    ELSE Put(m, notePath, NewCommentFileName(notePath))

\* the mappings after renamePath(oldPath, newPath)
renamePath(m, oldPath, newPath) ==
    IF ~Has(m, oldPath) THEN m
    ELSE Put(Remove(m, oldPath), newPath, m[oldPath])

\* the mappings after deletePath(notePath)
deletePath(m, notePath) == Remove(m, notePath)

----------------------------------------------------------------------------
(* types.ts and storage/CommentStore.ts *)

NoTarget == [exact |-> <<>>, prefix |-> <<>>, suffix |-> <<>>,
             headingContext |-> <<>>, lineHint |-> -1]

\* createdAt / updatedAt are left out: nothing modelled here reads them
AnchoredComment(id, body, tgt) ==
    [kind |-> "anchored", id |-> id, body |-> body, target |-> tgt,
     status |-> "active", resolution |-> "open", parentId |-> 0]

NoteComment(id, body) ==
    [kind |-> "note", id |-> id, body |-> body, target |-> NoTarget,
     status |-> "none", resolution |-> "open", parentId |-> 0]

ReplyComment(id, parentId, body) ==
    [kind |-> "reply", id |-> id, body |-> body, target |-> NoTarget,
     status |-> "none", resolution |-> "none", parentId |-> parentId]

isAnchoredComment(c) == c.kind = "anchored"
isNoteComment(c) == c.kind = "note"
isReplyComment(c) == c.kind = "reply"

NoPass == [kind |-> "none"]

\* `${pluginDir}/comments`, for the plugin directory "p"
BasePath == <<"p", "/", "c", "o", "m", "m", "e", "n", "t", "s">>

\* `${this.basePath}/${fileName}`
FilePath(fileName) == BasePath \o <<"/">> \o fileName

\* PathIndex.getIndexPath()
IndexPath == BasePath \o <<"/", "_", "i", "n", "d", "e", "x", ".", "j", "s", "o", "n">>

\* one call of adapter.write, adapter.remove or adapter.mkdir
AdapterOp(op, path) == [op |-> op, path |-> path]

\* loadCommentFile(notePath): whether a file was found, and the cache after
\* the call.  JSON.stringify / JSON.parse of a CommentFile give the file back.
loadCommentFile(notePath) ==
    IF Has(cache, notePath) THEN [found |-> TRUE, cache |-> cache]
    ELSE IF ~Has(mappings, notePath) THEN [found |-> FALSE, cache |-> cache]
    ELSE IF ~Has(files, mappings[notePath]) THEN [found |-> FALSE, cache |-> cache]
    ELSE [found |-> TRUE, cache |-> Put(cache, notePath, files[mappings[notePath]])]

\* getOrCreateCommentFile(notePath): cache, mappings and index file after it
getOrCreateCommentFile(notePath) ==
    LET l == loadCommentFile(notePath)
        m == getOrCreateCommentFileName(mappings, notePath)
    IN  IF l.found
        THEN [cache |-> l.cache, mappings |-> mappings, indexFile |-> indexFile,
              log |-> adapterLog]
        ELSE [cache |-> Put(l.cache, notePath,
                            [sourceFile |-> notePath, comments |-> <<>>]),
              mappings |-> m, indexFile |-> m,
              log |-> adapterLog \cup {AdapterOp("write", IndexPath)}]

\* file.comments.push(comment); scheduleSave(notePath)
PushComment(notePath, comment) ==
    LET g    == getOrCreateCommentFile(notePath)
        file == g.cache[notePath]
    IN  /\ cache' = Put(g.cache, notePath,
                        [file EXCEPT !.comments = Append(@, comment)])
        /\ mappings' = g.mappings
        /\ indexFile' = g.indexFile
        /\ adapterLog' = g.log
        /\ writeTimers' = writeTimers \cup {notePath}
        /\ nextId' = nextId + 1
        /\ lastPass' = NoPass
        /\ UNCHANGED <<notes, files>>
        /\ UNCHANGED <<engineVars, navVars, asyncVars>>

addComment(notePath, body, tgt) ==
    /\ notePath \in notes
    /\ nextId <= MaxComments
    /\ PushComment(notePath, AnchoredComment(nextId, body, tgt))

addNoteComment(notePath, body) ==
    /\ notePath \in notes
    /\ nextId <= MaxComments
    /\ PushComment(notePath, NoteComment(nextId, body))

addReply(notePath, parentId, body) ==
    LET l == loadCommentFile(notePath)
    IN  /\ notePath \in notes
        /\ nextId <= MaxComments
        /\ l.found
        /\ \E k \in 1..Len(l.cache[notePath].comments) :
              /\ l.cache[notePath].comments[k].id = parentId
              /\ isAnchoredComment(l.cache[notePath].comments[k])
        /\ cache' = Put(l.cache, notePath,
                        [l.cache[notePath] EXCEPT
                           !.comments = Append(@, ReplyComment(nextId, parentId, body))])
        /\ writeTimers' = writeTimers \cup {notePath}
        /\ nextId' = nextId + 1
        /\ lastPass' = NoPass
        /\ UNCHANGED <<notes, mappings, indexFile, files, adapterLog>>
        /\ UNCHANGED <<engineVars, navVars, asyncVars>>

\* index of the first comment with the id, 0 when there is none:
\* file.comments.find / findIndex (c => c.id === commentId)
FindIndex(comments, commentId) ==
    LET hits == {k \in 1..Len(comments) : comments[k].id = commentId}
    IN  IF hits = {} THEN 0 ELSE CHOOSE k \in hits : \A j \in hits : k <= j

\* the comments kept by a filter, in their order
RECURSIVE Filter(_, _)
Filter(comments, keep) ==
    IF comments = <<>> THEN <<>>
    ELSE (IF Head(comments).id \in keep THEN <<Head(comments)>> ELSE <<>>)
         \o Filter(Tail(comments), keep)

\* the cache and the timers after a mutation of the comments of a cached note
StoreComments(notePath, l, comments) ==
    /\ cache' = Put(l.cache, notePath, [l.cache[notePath] EXCEPT !.comments = comments])
    /\ writeTimers' = writeTimers \cup {notePath}
    /\ lastPass' = NoPass
    /\ UNCHANGED <<notes, mappings, indexFile, files, nextId, adapterLog>>
    /\ UNCHANGED <<engineVars, navVars, asyncVars>>

\* updateComment that also sets the comment back to 'active'
updateComment_ResetsStatus(notePath, commentId, body) ==
    LET l == loadCommentFile(notePath)
        k == FindIndex(l.cache[notePath].comments, commentId)
    IN  /\ notePath \in notes
        /\ l.found
        /\ k # 0
        /\ StoreComments(notePath, l,
               [l.cache[notePath].comments EXCEPT ![k].body = body,
                   ![k].status = IF @ = "none" THEN @ ELSE "active"])

\* updateComment(notePath, commentId, body), for a comment that is found
updateComment(notePath, commentId, body) ==
    LET l == loadCommentFile(notePath)
        k == FindIndex(l.cache[notePath].comments, commentId)
    IN  /\ notePath \in notes
        /\ l.found
        /\ k # 0
        /\ StoreComments(notePath, l,
               [l.cache[notePath].comments EXCEPT ![k].body = body])

\* toggleResolution(notePath, commentId), for a root comment that is found;
\* getRootResolution reads the resolution field of the comment
toggleResolution(notePath, commentId) ==
    LET l == loadCommentFile(notePath)
        k == FindIndex(l.cache[notePath].comments, commentId)
    IN  /\ notePath \in notes
        /\ l.found
        /\ k # 0
        /\ ~isReplyComment(l.cache[notePath].comments[k])
        /\ StoreComments(notePath, l,
               [l.cache[notePath].comments EXCEPT
                   ![k].resolution = IF @ = "open" THEN "resolved" ELSE "open"])

\* deleteComment that removes the one comment, whatever its kind
deleteComment_NoCascade(notePath, commentId) ==
    LET l        == loadCommentFile(notePath)
        comments == l.cache[notePath].comments
        k        == FindIndex(comments, commentId)
    IN  /\ notePath \in notes
        /\ l.found
        /\ k # 0
        /\ StoreComments(notePath, l,
               [j \in 1..(Len(comments) - 1) |->
                   IF j < k THEN comments[j] ELSE comments[j + 1]])

\* deleteComment(notePath, commentId), for a comment that is found: an
\* anchored comment goes with its replies, and with every comment of its id
deleteComment(notePath, commentId) ==
    LET l        == loadCommentFile(notePath)
        comments == l.cache[notePath].comments
        k        == FindIndex(comments, commentId)
        one      == [j \in 1..(Len(comments) - 1) |->
                        IF j < k THEN comments[j] ELSE comments[j + 1]]
        cascade  == Filter(comments,
                       {c.id : c \in {comments[j] : j \in 1..Len(comments)}}
                       \ ({commentId}
                           \cup {comments[j].id : j \in
                                    {i \in 1..Len(comments) :
                                        /\ isReplyComment(comments[i])
                                        /\ comments[i].parentId = commentId}}))
    IN  /\ notePath \in notes
        /\ l.found
        /\ k # 0
        /\ StoreComments(notePath, l,
               IF isAnchoredComment(comments[k]) THEN cascade ELSE one)

\* the loop body without the branch that refreshes the hint of an active
\* comment
ResolveOne_StaleHint(comment, anchor) ==
    IF anchor.kind = "anchor"
    THEN IF comment.status = "orphaned"
         THEN [comment |-> [comment EXCEPT !.status = "active",
                                            !.target.lineHint = anchor.line],
               changed |-> TRUE]
         ELSE [comment |-> comment, changed |-> FALSE]
    ELSE IF comment.status = "active"
         THEN [comment |-> [comment EXCEPT !.status = "orphaned"], changed |-> TRUE]
         ELSE [comment |-> comment, changed |-> FALSE]

\* the body of the for loop of resolveAnchors for one anchored comment, given
\* the resolver's answer
ResolveOne(comment, anchor) ==
    IF anchor.kind = "anchor"
    THEN IF comment.status = "orphaned"
         THEN [comment |-> [comment EXCEPT !.status = "active",
                                            !.target.lineHint = anchor.line],
               changed |-> TRUE]
         ELSE IF comment.target.lineHint # anchor.line
              THEN [comment |-> [comment EXCEPT !.target.lineHint = anchor.line],
                    changed |-> TRUE]
              ELSE [comment |-> comment, changed |-> FALSE]
    ELSE IF comment.status = "active"
         THEN [comment |-> [comment EXCEPT !.status = "orphaned"], changed |-> TRUE]
         ELSE [comment |-> comment, changed |-> FALSE]

\* the for loop of resolveAnchors from comment k on.  An exception of the
\* resolver leaves the loop: the comments handled so far stay mutated, the
\* changed flag is lost and no map is returned.
RECURSIVE ResolveLoop(_, _, _, _, _)

\* the rest of the loop after comment k got its new fields
ResolveRecord(doc, thr, oracles, k, acc, anchor, one) ==
    ResolveLoop(doc, thr, oracles, k + 1,
        [comments |-> [acc.comments EXCEPT ![k] = one.comment],
         results  |-> IF anchor.kind = "anchor"
                      THEN Put(acc.results, acc.comments[k].id, anchor)
                      ELSE acc.results,
         changed  |-> acc.changed \/ one.changed,
         threw    |-> FALSE])

\* the loop body for the anchored comment k, given the resolver's answer
ResolveAnchored(doc, thr, oracles, k, acc, anchor) ==
    IF anchor = Throw
    THEN [acc EXCEPT !.threw = TRUE]
    ELSE ResolveRecord(doc, thr, oracles, k, acc, anchor,
                       ResolveOne(acc.comments[k], anchor))

ResolveLoop(doc, thr, oracles, k, acc) ==
    IF k > Len(acc.comments) THEN acc
    ELSE IF ~isAnchoredComment(acc.comments[k])
    THEN ResolveLoop(doc, thr, oracles, k + 1, acc)
    ELSE ResolveAnchored(doc, thr, oracles, k, acc,
             resolveAnchor(acc.comments[k].target, doc, thr, oracles[k]))

\* first elements an inconsistent comparator may choose for some comment
OracleSet(comments, doc) ==
    UNION {Oracles(comments[k].target, doc) :
              k \in {j \in 1..Len(comments) : isAnchoredComment(comments[j])}}
    \cup {0}

\* the call that precedes this one was a pass with the same arguments
SamePass(notePath, doc, thr) ==
    /\ lastPass.kind = "pass"
    /\ lastPass.path = notePath
    /\ lastPass.docText = doc
    /\ lastPass.threshold = thr

\* resolveAnchors(notePath, docText, threshold) with resolveAnchor installed:
\* what the call does to the store.  lastPass records the call: its
\* arguments, the comments before and after, the map built, whether it
\* raised and whether it called scheduleSave.
ResolvePass(notePath, doc, thr) ==
    LET l        == loadCommentFile(notePath)
        comments == IF l.found THEN l.cache[notePath].comments ELSE <<>>
    IN  /\ notePath \in notes
        /\ \E oracles \in [1..Len(comments) -> OracleSet(comments, doc)] :
              \E r \in {ResolveLoop(doc, thr, oracles, 1,
                           [comments |-> comments, results |-> <<>>,
                            changed |-> FALSE, threw |-> FALSE])} :
                  /\ cache' = IF l.found
                              THEN Put(l.cache, notePath,
                                       [l.cache[notePath] EXCEPT !.comments = r.comments])
                              ELSE cache
                  /\ writeTimers' = IF r.changed /\ ~r.threw
                                    THEN writeTimers \cup {notePath}
                                    ELSE writeTimers
                  /\ lastPass' = [kind |-> "pass", path |-> notePath, docText |-> doc,
                                  threshold |-> thr, threw |-> r.threw,
                                  results |-> r.results,
                                  before |-> comments, after |-> r.comments,
                                  scheduled |-> r.changed /\ ~r.threw,
                                  repeats |-> SamePass(notePath, doc, thr),
                                  previous |-> IF SamePass(notePath, doc, thr)
                                               THEN [threw   |-> lastPass.threw,
                                                     results |-> lastPass.results]
                                               ELSE [threw |-> FALSE, results |-> <<>>]]
        /\ UNCHANGED <<notes, mappings, indexFile, files, nextId, adapterLog>>

\* a resolveAnchors call on its own
resolveAnchors(notePath, doc, thr) ==
    /\ ResolvePass(notePath, doc, thr)
    /\ UNCHANGED <<engineVars, navVars, asyncVars>>

\* the save timer firing into a saveCommentFile that writes the JSON to the
\* path of the note
SaveTimerFires_ToNotePath(notePath) ==
    /\ notePath \in writeTimers
    /\ writeTimers' = writeTimers \ {notePath}
    /\ adapterLog' = IF Has(cache, notePath) /\ Has(mappings, notePath)
                     THEN adapterLog \cup {AdapterOp("write", notePath)}
                     ELSE adapterLog
    /\ UNCHANGED <<notes, mappings, indexFile, cache, files, nextId, lastPass>>
    /\ UNCHANGED <<engineVars, navVars, asyncVars>>

\* the timer set by scheduleSave(notePath) fires: saveCommentFile(notePath)
SaveTimerFires(notePath) ==
    /\ notePath \in writeTimers
    /\ writeTimers' = writeTimers \ {notePath}
    /\ files' = IF Has(cache, notePath) /\ Has(mappings, notePath)
                THEN Put(files, mappings[notePath], cache[notePath])
                ELSE files
    /\ adapterLog' = IF Has(cache, notePath) /\ Has(mappings, notePath)
                     THEN adapterLog \cup {AdapterOp("write", FilePath(mappings[notePath]))}
                     ELSE adapterLog
    /\ UNCHANGED <<notes, mappings, indexFile, cache, nextId, lastPass>>
    /\ UNCHANGED <<engineVars, navVars, asyncVars>>

\* vault 'rename' event of a markdown file: handleRename(oldPath, newPath)
handleRename(oldPath, newPath) ==
    /\ oldPath \in notes
    /\ newPath \notin notes
    /\ notes' = (notes \ {oldPath}) \cup {newPath}
    /\ mappings' = renamePath(mappings, oldPath, newPath)
    /\ indexFile' = IF Has(mappings, oldPath) THEN mappings' ELSE indexFile
    /\ adapterLog' = IF Has(mappings, oldPath)
                     THEN adapterLog \cup {AdapterOp("write", IndexPath)}
                     ELSE adapterLog
    /\ IF Has(cache, oldPath)
       THEN /\ cache' = Put(Remove(cache, oldPath), newPath,
                            [cache[oldPath] EXCEPT !.sourceFile = newPath])
            /\ writeTimers' = writeTimers \cup {newPath}
       ELSE UNCHANGED <<cache, writeTimers>>
    /\ lastPass' = NoPass
    /\ UNCHANGED <<files, nextId>>
    /\ UNCHANGED <<engineVars, navVars, asyncVars>>

\* vault 'rename' event of the note shown in an open comment panel: the
\* handler starts handleRename and, without awaiting it, refreshPanel().
\* handleRename has moved the mapping and awaits the index write when
\* view.refresh() calls getComments(newPath): loadCommentFile misses the
\* cache (still keyed by oldPath), finds the mapping and reads the comment
\* file.  This is the outcome in which that read settles after handleRename
\* has moved the cache entry: cache.set(newPath, file) of loadCommentFile
\* replaces the moved entry by the copy read from disk.
renameWithPanelRefresh(oldPath, newPath) ==
    /\ oldPath \in notes
    /\ newPath \notin notes
    /\ Has(mappings, oldPath)
    /\ Has(cache, oldPath)
    /\ Has(files, mappings[oldPath])
    /\ notes' = (notes \ {oldPath}) \cup {newPath}
    /\ mappings' = renamePath(mappings, oldPath, newPath)
    /\ indexFile' = mappings'
    /\ adapterLog' = adapterLog \cup {AdapterOp("write", IndexPath)}
    /\ cache' = Put(Remove(cache, oldPath), newPath, files[mappings[oldPath]])
    /\ writeTimers' = writeTimers \cup {newPath}
    /\ lastPass' = NoPass
    /\ UNCHANGED <<files, nextId>>
    /\ UNCHANGED <<engineVars, navVars, asyncVars>>

\* getComments(notePath) in the current state
getComments(notePath) ==
    LET l == loadCommentFile(notePath)
    IN  IF l.found THEN l.cache[notePath].comments ELSE <<>>

\* flushAll(): every timer is cleared and every cached file is saved
flushAll ==
    LET saved == {p \in DOMAIN cache : Has(mappings, p)}
    IN  /\ writeTimers' = {}
        /\ \E order \in [1..Cardinality(saved) -> saved] :
              /\ \A i, j \in 1..Cardinality(saved) : i # j => order[i] # order[j]
              /\ files' = [f \in DOMAIN files \cup {mappings[q] : q \in saved} |->
                             IF \E i \in 1..Cardinality(saved) : mappings[order[i]] = f
                             THEN LET last == CHOOSE i \in 1..Cardinality(saved) :
                                                /\ mappings[order[i]] = f
                                                /\ \A j \in (i+1)..Cardinality(saved) :
                                                      mappings[order[j]] # f
                                  IN  cache[order[last]]
                             ELSE files[f]]
        /\ adapterLog' = adapterLog
                          \cup {AdapterOp("write", FilePath(mappings[q])) : q \in saved}
        /\ lastPass' = NoPass
        /\ UNCHANGED <<notes, mappings, indexFile, cache, nextId>>
        /\ UNCHANGED <<engineVars, navVars, asyncVars>>

\* handleDelete that leaves the cache entry and the mapping of the note
handleDelete_KeepsEntries(notePath, shouldDelete) ==
    /\ notePath \in notes
    /\ notes' = notes \ {notePath}
    /\ files' = IF shouldDelete /\ Has(mappings, notePath)
                THEN Remove(files, mappings[notePath])
                ELSE files
    /\ lastPass' = [kind |-> "delete", path |-> notePath,
                    shouldDelete |-> shouldDelete,
                    fileName |-> IF Has(mappings, notePath)
                                 THEN mappings[notePath] ELSE <<>>,
                    pending |-> notePath \in writeTimers]
    /\ UNCHANGED <<mappings, indexFile, cache, writeTimers, nextId, adapterLog>>
    /\ UNCHANGED <<engineVars, navVars, asyncVars>>

\* vault 'delete' event of a markdown file: handleDelete(notePath, shouldDelete)
handleDelete(notePath, shouldDelete) ==
    /\ notePath \in notes
    /\ notes' = notes \ {notePath}
    /\ mappings' = deletePath(mappings, notePath)
    /\ indexFile' = IF Has(mappings, notePath) THEN mappings' ELSE indexFile
    /\ cache' = Remove(cache, notePath)
    /\ files' = IF shouldDelete /\ Has(mappings, notePath)
                THEN Remove(files, mappings[notePath])
                ELSE files
    /\ adapterLog' =
          adapterLog
          \cup (IF Has(mappings, notePath)
                THEN {AdapterOp("write", IndexPath)} ELSE {})
          \cup (IF shouldDelete /\ Has(mappings, notePath)
                   /\ Has(files, mappings[notePath])
                THEN {AdapterOp("remove", FilePath(mappings[notePath]))} ELSE {})
    /\ lastPass' = [kind |-> "delete", path |-> notePath,
                    shouldDelete |-> shouldDelete,
                    fileName |-> IF Has(mappings, notePath)
                                 THEN mappings[notePath] ELSE <<>>,
                    pending |-> notePath \in writeTimers]
    /\ UNCHANGED <<writeTimers, nextId>>
    /\ UNCHANGED <<engineVars, navVars, asyncVars>>

\* a markdown note appears in the vault (the plugin handles no create event)
CreateNote(notePath) ==
    /\ notePath \notin notes
    /\ notes' = notes \cup {notePath}
    /\ lastPass' = NoPass
    /\ UNCHANGED <<mappings, indexFile, cache, files, writeTimers, nextId, adapterLog>>
    /\ UNCHANGED <<engineVars, navVars, asyncVars>>

----------------------------------------------------------------------------
(* main.ts: addCommentFromSelection *)

\* characters of context recorded before and after a selection
ContextLen == 50

extractContext(text, offset, length) ==
    Substring(text, Max(0, offset), Min(Len(text), offset + length))

\* the target recorded for the selection [from, to) of the editor text doc
SelectionTarget(doc, from, to) ==
    [exact          |-> Substring(doc, from, to),
     prefix         |-> extractContext(doc, from - ContextLen, ContextLen),
     suffix         |-> extractContext(doc, to, ContextLen),
     headingContext |-> findHeadingContext(doc, from),
     lineHint       |-> Cardinality({i \in 1..from : doc[i] = "\n"})]

addCommentFromSelection(notePath, doc, from, to, body) ==
    /\ from < to
    /\ addComment(notePath, body, SelectionTarget(doc, from, to))

----------------------------------------------------------------------------
(* Inputs *)

Chars == {"a", "b", "\n"}
CtxChars == {"a"}

Docs == StrUpTo(Chars, MaxDocLen)
Exacts == StrUpTo(Chars, MaxExactLen)
Contexts == StrUpTo(CtxChars, MaxCtxLen)

\* no hint; hints on the first two lines, whose window covers the document;
\* hints recorded HintWindow + 1 and HintWindow + 2 lines down, whose window
\* starts at line 1 or 2
LineHints == {NoHint, 0, 1, HintWindow + 1, HintWindow + 2}

\* thresholds 0, 0.5 and 1: exactly representable, so that
\* Math.floor(n * threshold) is the floor of the exact product
Thresholds == {<<0, 1>>, <<1, 2>>, <<1, 1>>}

Target(exact, prefix, suffix, headingContext, lineHint) ==
    [exact |-> exact, prefix |-> prefix, suffix |-> suffix,
     headingContext |-> headingContext, lineHint |-> lineHint]

\* documents with section headings, and the heading contexts recorded from them
HeadLines == {<<"#", " ", "a">>, <<"#", " ", "b">>, <<"#", "a">>}
LineTexts == StrUpTo({"a", "b"}, 1)
HeadingDocs ==
    {h1 \o <<"\n">> \o x \o <<"\n">> \o h2 \o <<"\n">> \o y :
        h1 \in HeadLines, x \in LineTexts, h2 \in HeadLines, y \in LineTexts}
HeadingContexts == {<<"#", " ", "a">>, <<"#", " ", " ", "a">>}


----------------------------------------------------------------------------
(* resolveAnchor as a one-step machine *)

InitPlain ==
    /\ target \in {Target(e, p, s, NoHeading, h) :
                      e \in Exacts, p \in Contexts, s \in Contexts, h \in LineHints}
    /\ docText \in Docs
    /\ threshold \in Thresholds

InitHeading ==
    /\ target \in {Target(e, <<>>, <<>>, hc, h) :
                      e \in {<<"a">>, <<"b">>}, hc \in HeadingContexts,
                      h \in {NoHint, 0, HintWindow + 2}}
    /\ docText \in HeadingDocs
    /\ threshold \in {<<1, 2>>}

\* the store takes no part in the runs of the engine
StoreIdle ==
    /\ notes = {}
    /\ mappings = <<>>
    /\ indexFile = <<>>
    /\ cache = <<>>
    /\ files = <<>>
    /\ writeTimers = {}
    /\ nextId = 1
    /\ lastPass = [kind |-> "none"]
    /\ adapterLog = {}

\* no navigation command takes part
NavIdle ==
    /\ anchors = <<>>
    /\ cursor = 0

\* clearTimeout has nothing to clear: resolveDebounceTimer is null
NoTimer == <<>>

\* no store call is in flight and no re-resolve timer is armed
AsyncIdle ==
    /\ tasks = <<>>
    /\ heap = <<>>
    /\ resolveDebounceTimer = NoTimer
    /\ activeFile = <<>>

InitResolve ==
    /\ InitPlain \/ InitHeading
    /\ result = Null
    /\ pc = "start"
    /\ StoreIdle
    /\ NavIdle
    /\ AsyncIdle

ResolveCall ==
    /\ pc = "start"
    /\ \E oracle \in Oracles(target, docText) :
          result' = resolveAnchor(target, docText, threshold, oracle)
    /\ pc' = "resolved"
    /\ UNCHANGED <<target, docText, threshold>>
    /\ UNCHANGED <<storeVars, navVars, asyncVars>>

NextResolve == ResolveCall

SpecResolve == InitResolve /\ [][NextResolve]_vars

----------------------------------------------------------------------------
(* fuzzyMatch / fuzzyMatchInOriginal as a one-step machine *)

InitFuzzy ==
    /\ target \in {Target(e, <<>>, <<>>, NoHeading, NoHint) : e \in StrUpTo(Chars, MaxNeedleLen)}
    /\ docText \in StrUpTo(Chars, MaxHayLen)
    /\ threshold \in Thresholds
    /\ result = Null
    /\ pc = "start"
    /\ StoreIdle
    /\ NavIdle
    /\ AsyncIdle

FuzzyCall ==
    /\ pc = "start"
    /\ result' = [kind       |-> "fuzzy",
                  match      |-> fuzzyMatch(target.exact, docText, threshold),
                  inOriginal |-> fuzzyMatchInOriginal(target.exact, docText, threshold)]
    /\ pc' = "matched"
    /\ UNCHANGED <<target, docText, threshold>>
    /\ UNCHANGED <<storeVars, navVars, asyncVars>>

NextFuzzy == FuzzyCall

SpecFuzzy == InitFuzzy /\ [][NextFuzzy]_vars

----------------------------------------------------------------------------
(* levenshteinDistance as a one-step machine: the distances between three *)
(* strings a = target.exact, b = docText and c                            *)

LevStrings == StrUpTo({"a", "b"}, MaxLevLen)

InitLev ==
    /\ target \in {Target(a, <<>>, <<>>, NoHeading, NoHint) : a \in LevStrings}
    /\ docText \in LevStrings
    /\ threshold = <<0, 1>>
    /\ result = Null
    /\ pc = "start"
    /\ StoreIdle
    /\ NavIdle
    /\ AsyncIdle

LevCall(c) ==
    /\ pc = "start"
    /\ result' = [kind  |-> "distances",
                  third |-> c,
                  ab    |-> levenshteinDistance(target.exact, docText),
                  ba    |-> levenshteinDistance(docText, target.exact),
                  ac    |-> levenshteinDistance(target.exact, c),
                  cb    |-> levenshteinDistance(c, docText)]
    /\ pc' = "measured"
    /\ UNCHANGED <<target, docText, threshold>>
    /\ UNCHANGED <<storeVars, navVars, asyncVars>>

NextLev == \E c \in LevStrings : LevCall(c)

SpecLev == InitLev /\ [][NextLev]_vars

----------------------------------------------------------------------------
(* scoreContext as a one-step machine: a recorded prefix, a recorded       *)
(* suffix or both, scored at every span matchFrom <= matchTo of a document *)

ScoreContexts == StrUpTo(Chars, MaxScoreLen)

InitScore ==
    /\ target \in {Target(<<>>, p, <<>>, NoHeading, NoHint) : p \in ScoreContexts}
                \cup {Target(<<>>, <<>>, x, NoHeading, NoHint) : x \in ScoreContexts}
                \cup {Target(<<>>, p, x, hc, NoHint) :
                         p \in Contexts, x \in Contexts, hc \in {NoHeading, <<"#", " ", "a">>}}
    /\ docText \in Docs \cup {<<"#", " ", "a", "\n", "a">>}
    /\ threshold = <<0, 1>>
    /\ result = Null
    /\ pc = "start"
    /\ StoreIdle
    /\ NavIdle
    /\ AsyncIdle

ScoreCall(matchFrom, matchTo) ==
    /\ pc = "start"
    /\ result' = [kind      |-> "score",
                  matchFrom |-> matchFrom,
                  matchTo   |-> matchTo,
                  score     |-> scoreContext(target, docText, matchFrom, matchTo)]
    /\ pc' = "scored"
    /\ UNCHANGED <<target, docText, threshold>>
    /\ UNCHANGED <<storeVars, navVars, asyncVars>>

NextScore ==
    \E matchFrom \in 0..Len(docText) : \E matchTo \in matchFrom..Len(docText) :
        ScoreCall(matchFrom, matchTo)

SpecScore == InitScore /\ [][NextScore]_vars

----------------------------------------------------------------------------
(* Properties of the anchor resolution engine *)

\* zero-based line of the character at offset q: the newlines before it
LineOfOffset(doc, q) == Cardinality({i \in 1..Min(q, Len(doc)) : doc[i] = "\n"})

\* the occurrence of exact at offset p lies on lines lo..hi only
OnLines(doc, exact, p, lo, hi) ==
    /\ MatchesAt(doc, exact, p)
    /\ IF exact = <<>>
       THEN LineOfOffset(doc, p) \in lo..hi
       ELSE \A q \in p..(p + Len(exact) - 1) : LineOfOffset(doc, q) \in lo..hi

OccursInWindow(doc, exact, hint) ==
    \E p \in 0..Len(doc) : OnLines(doc, exact, p, hint - HintWindow, hint + HintWindow)

OccursVerbatim(doc, exact) == \E p \in 0..Len(doc) : MatchesAt(doc, exact, p)

IsSpan(doc, exact, a) ==
    /\ a.kind = "anchor"
    /\ MatchesAt(doc, exact, a.from)
    /\ a.to = a.from + Len(exact)

\* C1: resolveAnchor returns a resolved anchor or null and never raises an
\* exception, for every target, document and threshold, also when lineHint is
\* larger than the number of lines of the document.
C1_NeverRaises ==
    pc = "resolved" => result.kind \in {"anchor", "null"}

\* C4: a non-empty exact that occurs verbatim in the document, but nowhere
\* inside the +/-20-line window around lineHint, resolves to a stage-2 anchor
\* whose span is a verbatim occurrence, for any lineHint and document length.
C4_GracefulDegradation ==
    ( /\ pc = "resolved"
      /\ target.exact # <<>>
      /\ target.lineHint # NoHint
      /\ OccursVerbatim(docText, target.exact)
      /\ ~OccursInWindow(docText, target.exact, target.lineHint) )
    => ( /\ result.kind = "anchor"
         /\ result.stage = 2
         /\ IsSpan(docText, target.exact, result) )

\* C5: when lineHint is set and exact occurs verbatim entirely inside lines
\* [lineHint-20, lineHint+20], resolveAnchor returns an anchor tagged stage 1,
\* whatever the prefix, suffix, heading context and the occurrences elsewhere.
C5_Stage1Priority ==
    ( /\ pc = "resolved"
      /\ target.lineHint # NoHint
      /\ OccursInWindow(docText, target.exact, target.lineHint) )
    => ( /\ result.kind = "anchor"
         /\ result.stage = 1 )

\* C5 witness: stage 1 answered with an occurrence in a window that does not
\* start at line 0 although an occurrence outside the window scores better.
C5_Witness ==
    /\ pc = "resolved"
    /\ target.lineHint > HintWindow
    /\ target.exact # <<>>
    /\ \A i \in 1..Len(target.exact) : ~IsSpace(target.exact[i])
    /\ OccursInWindow(docText, target.exact, target.lineHint)
    /\ result.kind = "anchor"
    /\ result.stage = 1
    /\ \E p \in 0..Len(docText) :
          /\ MatchesAt(docText, target.exact, p)
          /\ ~OnLines(docText, target.exact, p,
                      target.lineHint - HintWindow, target.lineHint + HintWindow)
          /\ ScoreLess(scoreContext(target, docText, result.from, result.to),
                       scoreContext(target, docText, p, p + Len(target.exact)))

\* C6: when exact occurs verbatim on the hinted line, the anchor returned is
\* that occurrence on the hinted line (result.line = lineHint), even when
\* exact also occurs on other lines of the window.
C6_HintedLineOccurrence ==
    ( /\ pc = "resolved"
      /\ target.lineHint # NoHint
      /\ target.exact # <<>>
      /\ \E p \in 0..Len(docText) :
            OnLines(docText, target.exact, p, target.lineHint, target.lineHint) )
    => ( /\ IsSpan(docText, target.exact, result)
         /\ result.line = target.lineHint )

\* a and b have no character in common although neither is blank
Contradicts(expected, actual) ==
    LET e == normalizeWhitespace(expected)
        a == normalizeWhitespace(actual)
    IN  /\ e # <<>>
        /\ a # <<>>
        /\ {e[i] : i \in 1..Len(e)} \cap {a[i] : i \in 1..Len(a)} = {}

\* C8: in stage 3, a fuzzy candidate within the distance budget whose actual
\* preceding text contradicts the recorded prefix and whose actual following
\* text contradicts the recorded suffix is rejected: resolveAnchor returns null.
C8_ContextRejection ==
    LET cand == fuzzyMatchInOriginal(target.exact, docText, threshold)
        from == cand.index
        to   == cand.index + cand.length
    IN  ( /\ pc = "resolved"
          /\ resolveStage1(target, docText) = Null
          /\ resolveStage2(target, docText, 0) = Null
          /\ cand # NoMatch
          /\ Contradicts(target.prefix,
                 Substring(docText, Max(0, from - Len(target.prefix)), from))
          /\ Contradicts(target.suffix,
                 Substring(docText, to, to + Len(target.suffix))) )
        => result = Null

\* C9: a target whose exact is the empty string resolves to null (no match)
\* for every document and threshold, with or without a lineHint.
C9_EmptyExactNoMatch ==
    (pc = "resolved" /\ target.exact = <<>>) => result = Null

\* the anchor a is a well-formed span of the document for the recorded text
WellFormed(a, doc, exact) ==
    /\ 0 <= a.from
    /\ a.from <= a.to
    /\ a.to <= Len(doc)
    /\ a.line = Cardinality({i \in 1..Min(a.from, Len(doc)) : doc[i] = "\n"})
    /\ a.stage \in {1, 2, 3}
    /\ a.stage \in {1, 2} => Substring(doc, a.from, a.to) = exact

\* C29: every anchor resolveAnchor returns is a well-formed span of the
\* document: 0 <= from <= to <= length, line is the number of newlines
\* before from, stage is 1, 2 or 3, and for stage 1 and stage 2 the text of
\* the span is target.exact character for character.
C29_WellFormedSpan ==
    (pc = "resolved" /\ result.kind = "anchor") =>
        WellFormed(result, docText, target.exact)

\* the anchors returned for a non-empty exact are well-formed spans
C29_WellFormedForNonEmptyExact ==
    (pc = "resolved" /\ result.kind = "anchor" /\ target.exact # <<>>) =>
        WellFormed(result, docText, target.exact)

\* a stage-3 anchor below the first line whose span is not the recorded text
C29_Stage3Reached ==
    /\ pc = "resolved"
    /\ result.kind = "anchor"
    /\ result.stage = 3
    /\ result.line > 0
    /\ result.from < result.to
    /\ Substring(docText, result.from, result.to) # target.exact

\* a stage-1 anchor below the first line
C29_Stage1Reached ==
    /\ pc = "resolved"
    /\ result.kind = "anchor"
    /\ result.stage = 1
    /\ result.line > 0
    /\ result.from < result.to

\* offsets of the verbatim occurrences of target.exact in the document
Occurrences == {p \in 0..Len(docText) : MatchesAt(docText, target.exact, p)}

\* context score of the occurrence at offset p
ScoreAt(p) == scoreContext(target, docText, p, p + Len(target.exact))

\* the anchor a is the earliest of the occurrences that have the greatest
\* score: its score is a number that the score of no occurrence exceeds
IsBestOccurrence(a) ==
    /\ a.kind = "anchor"
    /\ a.stage = 2
    /\ a.from \in Occurrences
    /\ a.to = a.from + Len(target.exact)
    /\ ~ScoreAt(a.from).nan
    /\ \A q \in Occurrences : ~ScoreLess(ScoreAt(a.from), ScoreAt(q))
    /\ \A q \in Occurrences : ScoreEq(ScoreAt(q), ScoreAt(a.from)) => a.from <= q

\* stage 1 answered null and the non-empty exact occurs verbatim
Stage2Reached ==
    /\ pc = "resolved"
    /\ target.exact # <<>>
    /\ resolveStage1(target, docText) = Null
    /\ Occurrences # {}

\* C16: when stage 2 is reached and exact occurs at several positions
\* (overlapping ones included), the returned occurrence has the maximal context
\* score among all verbatim occurrences of the document, and among the
\* occurrences sharing that score it is the one with the smallest offset.
C16_Stage2Selection ==
    (Stage2Reached /\ Cardinality(Occurrences) >= 2) => IsBestOccurrence(result)

\* C16 where every occurrence has a numeric score: the selection is the
\* earliest occurrence of maximal score
C16_NumericScoresSelection ==
    (Stage2Reached /\ \A q \in Occurrences : ~ScoreAt(q).nan)
    => IsBestOccurrence(result)

\* a later occurrence won on its score, and a tie went to the earlier one
C16_NumericScoresReached ==
    /\ Stage2Reached
    /\ \A q \in Occurrences : ~ScoreAt(q).nan
    /\ \E q \in Occurrences :
          q < result.from /\ ScoreLess(ScoreAt(q), ScoreAt(result.from))
    /\ \E q \in Occurrences :
          q > result.from /\ ScoreEq(ScoreAt(q), ScoreAt(result.from))

----------------------------------------------------------------------------
(* Properties of the context scorer *)

\* length of the common run of characters counted from the starts of both
\* strings
RECURSIVE LeadingRun(_, _, _)
LeadingRun(e, a, i) ==
    IF i < Min(Len(e), Len(a)) /\ e[i + 1] = a[i + 1]
    THEN LeadingRun(e, a, i + 1)
    ELSE i

\* length of the common run of characters counted from the ends of both
\* strings
RECURSIVE CommonTrailingRun(_, _, _)
CommonTrailingRun(e, a, i) ==
    IF i < Min(Len(e), Len(a)) /\ e[Len(e) - i] = a[Len(a) - i]
    THEN CommonTrailingRun(e, a, i + 1)
    ELSE i

\* the document text before matchFrom and after matchTo that is compared
\* with the recorded prefix and suffix
ActualPrefix ==
    Substring(docText, Max(0, result.matchFrom - Len(target.prefix)), result.matchFrom)
ActualSuffix ==
    Substring(docText, result.matchTo,
              Min(Len(docText), result.matchTo + Len(target.suffix)))

\* only the suffix is recorded, and it differs from the non-blank text after
\* matchTo, both taken normalized
SuffixDiffers ==
    /\ pc = "scored"
    /\ target.prefix = <<>>
    /\ target.headingContext = NoHeading
    /\ normalizeWhitespace(target.suffix) # <<>>
    /\ normalizeWhitespace(ActualSuffix) # <<>>
    /\ normalizeWhitespace(target.suffix) # normalizeWhitespace(ActualSuffix)

\* only the prefix is recorded, and it differs from the non-blank text before
\* matchFrom, both taken normalized
PrefixDiffers ==
    /\ pc = "scored"
    /\ target.suffix = <<>>
    /\ target.headingContext = NoHeading
    /\ normalizeWhitespace(target.prefix) # <<>>
    /\ normalizeWhitespace(ActualPrefix) # <<>>
    /\ normalizeWhitespace(target.prefix) # normalizeWhitespace(ActualPrefix)

\* C24: when the recorded suffix and the text following matchTo differ after
\* normalization, the suffix component of the score is the length of their
\* common run of characters counted forward from the join point, divided by
\* the shorter normalized length, as the prefix component is counted
\* backward from the join point.
C24_SuffixForward ==
    SuffixDiffers =>
        LET e == normalizeWhitespace(target.suffix)
            a == normalizeWhitespace(ActualSuffix)
        IN  ScoreEq(result.score, Score(LeadingRun(e, a, 0), Min(Len(e), Len(a))))

\* the prefix component is the common run counted backward from the join
\* point over the shorter normalized length
C24_PrefixBackward ==
    PrefixDiffers =>
        LET e == normalizeWhitespace(target.prefix)
            a == normalizeWhitespace(ActualPrefix)
        IN  ScoreEq(result.score, Score(CommonTrailingRun(e, a, 0), Min(Len(e), Len(a))))

\* a prefix that shares its last character only with the text before matchFrom
C24_PrefixReached ==
    /\ PrefixDiffers
    /\ ScoreEq(result.score, Score(1, 2))

\* the score is a number between lo and hi
InRange(score, lo, hi) ==
    /\ ~score.nan
    /\ score.den > 0
    /\ lo * score.den <= score.num
    /\ score.num <= hi * score.den

\* C28: computeOverlapScore never divides by zero, for every non-empty
\* recorded context and every non-empty actual text, those made of
\* whitespace only included; scoreContext returns a finite number between
\* 0 and 6.
C28_ScoreIsFinite ==
    pc = "scored" => InRange(result.score, 0, 6)

\* the recorded contexts and the texts they are compared with all have a
\* character that is not whitespace, or are empty
NoBlankContext ==
    \A x \in {target.prefix, target.suffix, ActualPrefix, ActualSuffix} :
        x = <<>> \/ normalizeWhitespace(x) # <<>>

\* without a context made of whitespace only the score is a number between
\* 0 and 6
C28_FiniteWithoutBlankContext ==
    (pc = "scored" /\ NoBlankContext) => InRange(result.score, 0, 6)

\* prefix, suffix and heading all match: the score is 6
C28_FullScoreReached ==
    /\ pc = "scored"
    /\ NoBlankContext
    /\ ScoreEq(result.score, Score(6, 1))

----------------------------------------------------------------------------
(* Properties of the fuzzy matcher *)

\* Levenshtein distance by its defining recurrence
RECURSIVE EditDistance(_, _)
EditDistance(a, b) ==
    IF a = <<>> THEN Len(b)
    ELSE IF b = <<>> THEN Len(a)
    ELSE Min(Min(EditDistance(Tail(a), b) + 1, EditDistance(a, Tail(b)) + 1),
             EditDistance(Tail(a), Tail(b)) + (IF Head(a) = Head(b) THEN 0 ELSE 1))

\* floor(n * t) for a threshold t = num/den in [0, 1]
FloorOfProduct(n, thr) ==
    CHOOSE k \in 0..n : k * thr[2] <= n * thr[1] /\ (k + 1) * thr[2] > n * thr[1]

\* C7: fuzzyMatch never returns a distance above floor(n * threshold), n the
\* length of the normalized needle; the distance returned is the Levenshtein
\* distance between the normalized needle and the returned window of the
\* normalized haystack; hence the match handed to stage 3 stays in the budget.
C7_FuzzyBound ==
    pc = "matched" =>
        LET nn    == normalizeWhitespace(target.exact)
            nh    == normalizeWhitespace(docText)
            bound == FloorOfProduct(Len(nn), threshold)
            m     == result.match
            o     == result.inOriginal
        IN  /\ m # NoMatch =>
                  /\ m.distance <= bound
                  /\ m.index >= 0 /\ m.length >= 1 /\ m.index + m.length <= Len(nh)
                  /\ m.distance = EditDistance(nn, SubSeq(nh, m.index + 1, m.index + m.length))
            /\ o # NoMatch => o.distance <= bound

\* C7 witness: an inexact window was accepted at exactly the budget
C7_Witness ==
    /\ pc = "matched"
    /\ result.match # NoMatch
    /\ result.match.distance >= 1
    /\ result.match.distance =
          FloorOfProduct(Len(normalizeWhitespace(target.exact)), threshold)
    /\ result.inOriginal # NoMatch
    /\ result.inOriginal.distance = result.match.distance

\* the windows <<start, length>> of the normalized haystack whose length is in
\* [max(1, n - maxDistance), n + maxDistance] and whose Levenshtein distance to
\* the normalized needle is at most maxDistance = floor(n * threshold)
AdmissibleWindows ==
    LET nn   == normalizeWhitespace(target.exact)
        nh   == normalizeWhitespace(docText)
        n    == Len(nn)
        maxD == FloorOfProduct(n, threshold)
    IN  {w \in (0..Len(nh)) \X (1..Len(nh)) :
            /\ w[2] >= Max(1, n - maxD)
            /\ w[2] <= n + maxD
            /\ w[1] + w[2] <= Len(nh)
            /\ EditDistance(nn, SubSeq(nh, w[1] + 1, w[1] + w[2])) <= maxD}

\* distance of the window w to the normalized needle
WindowDistance(w) ==
    EditDistance(normalizeWhitespace(target.exact),
                 SubSeq(normalizeWhitespace(docText), w[1] + 1, w[1] + w[2]))

\* C20: fuzzyMatch returns none iff the needle normalizes to empty or no
\* admissible window exists; otherwise the distance it returns is the minimum
\* over the admissible windows (a zero-distance window is returned whenever
\* one exists).
C20_FuzzyOptimal ==
    pc = "matched" =>
        /\ result.match = NoMatch <=>
              (normalizeWhitespace(target.exact) = <<>> \/ AdmissibleWindows = {})
        /\ result.match # NoMatch =>
              /\ <<result.match.index, result.match.length>> \in AdmissibleWindows
              /\ \A w \in AdmissibleWindows : result.match.distance <= WindowDistance(w)

\* C20 witness: the window returned beat an admissible window of larger
\* distance that the scan met before it
C20_Witness ==
    /\ pc = "matched"
    /\ result.match # NoMatch
    /\ \E w \in AdmissibleWindows :
          /\ WindowDistance(w) > result.match.distance
          /\ \/ w[2] < result.match.length
             \/ w[2] = result.match.length /\ w[1] < result.match.index

\* C23: levenshteinDistance(a, b) is the minimum number of single-character
\* insertions, deletions and substitutions that turn a into b, for all
\* strings (empty, equal, either one the longer); it is symmetric, zero
\* exactly when a = b, and satisfies the triangle inequality.
C23_Levenshtein ==
    pc = "measured" =>
        /\ result.ab = EditDistance(target.exact, docText)
        /\ result.ba = result.ab
        /\ result.ab = 0 <=> target.exact = docText
        /\ result.ab <= result.ac + result.cb

\* C23 witness: the first argument is the longer one, the distance takes a
\* deletion and a substitution, and the triangle through c is tight
C23_Witness ==
    /\ pc = "measured"
    /\ Len(docText) >= 2
    /\ Len(target.exact) > Len(docText)
    /\ result.ab > Len(target.exact) - Len(docText)
    /\ result.ab < Len(target.exact)
    /\ result.third \notin {target.exact, docText}
    /\ result.ab = result.ac + result.cb

\* the windows of the normalized haystack whose length is in
\* [max(1, n - maxDistance), n + maxDistance], as triples <<start, length,
\* levenshteinDistance to the normalized needle>>
WindowCosts ==
    LET nn   == normalizeWhitespace(target.exact)
        nh   == normalizeWhitespace(docText)
        n    == Len(nn)
        maxD == MaxDistance(n, threshold)
    IN  {<<w[1], w[2], levenshteinDistance(nn, SubSeq(nh, w[1] + 1, w[1] + w[2]))>> :
            w \in {v \in (0..Len(nh)) \X (1..Len(nh)) :
                      /\ v[2] >= Max(1, n - maxD)
                      /\ v[2] <= n + maxD
                      /\ v[1] + v[2] <= Len(nh)}}

\* the windows <<start, length>> of least distance among those of costs that
\* are within the budget
LeastCost(costs, maxD) ==
    {<<t[1], t[2]>> : t \in {u \in costs :
        /\ u[3] <= maxD
        /\ \A v \in costs : v[3] <= maxD => u[3] <= v[3]}}

\* the admissible windows of minimal distance
MinimalWindows ==
    \* chosen from a one-element set, so that the costs are computed once
    CHOOSE m \in {LeastCost(costs, MaxDistance(Len(normalizeWhitespace(target.exact)),
                                               threshold)) : costs \in {WindowCosts}} : TRUE

\* C21 as stated: among the admissible windows that share the minimal edit
\* distance, fuzzyMatch returns the one with the earliest start, and among
\* those with the same start the shortest one.
C21_EarliestStartFirst ==
    (pc = "matched" /\ result.match # NoMatch) =>
        \E minimal \in {MinimalWindows} : \A w \in minimal :
            \/ result.match.index < w[1]
            \/ result.match.index = w[1] /\ result.match.length <= w[2]

\* C21 amended: among the admissible windows that share the minimal edit
\* distance, fuzzyMatch returns the shortest one, and among those of the same
\* length the one with the earliest start.
C21_ShortestLengthFirst ==
    (pc = "matched" /\ result.match # NoMatch) =>
        \E minimal \in {MinimalWindows} :
            /\ <<result.match.index, result.match.length>> \in minimal
            /\ \A w \in minimal :
                  \/ result.match.length < w[2]
                  \/ result.match.length = w[2] /\ result.match.index <= w[1]

\* C21 witness: a longer window of the same minimal distance starts before
\* the window returned, and another of the same length starts after it
C21_Witness ==
    /\ pc = "matched"
    /\ result.match # NoMatch
    /\ \E minimal \in {MinimalWindows} :
          /\ \E w \in minimal : w[1] < result.match.index /\ w[2] > result.match.length
          /\ \E w \in minimal : w[1] > result.match.index /\ w[2] = result.match.length

\* C22: when the normalized needle is non-empty and occurs in the normalized
\* text, fuzzyMatchInOriginal returns a span inside the original text whose
\* normalized content equals the normalized needle, at distance 0, whatever
\* leading, trailing or repeated whitespace the original text holds.
C22_OffsetRoundTrip ==
    LET nn == normalizeWhitespace(target.exact)
        o  == result.inOriginal
    IN  ( /\ pc = "matched"
          /\ nn # <<>>
          /\ OccursVerbatim(normalizeWhitespace(docText), nn) )
        => ( /\ o # NoMatch
             /\ o.distance = 0
             /\ 0 <= o.index
             /\ o.index + o.length <= Len(docText)
             /\ normalizeWhitespace(SubSeq(docText, o.index + 1, o.index + o.length)) = nn )

\* C22 witness: the span returned holds a whitespace run that normalization
\* shortened, and the needle itself was not in normal form
C22_Witness ==
    /\ pc = "matched"
    /\ result.inOriginal # NoMatch
    /\ result.inOriginal.distance = 0
    /\ result.inOriginal.length > Len(normalizeWhitespace(target.exact))
    /\ target.exact # normalizeWhitespace(target.exact)

----------------------------------------------------------------------------
(* The comment store over one note: comments are made from selections of  *)
(* the editor text, and resolveAnchors runs against later editor texts.   *)
(* The note stays cached, so no step here reads the saved file; the save   *)
(* timer runs in SpecIndex.                                                *)

StorePath == <<"n", ".", "m", "d">>

Newlines(n) == [i \in 1..n |-> "\n"]

\* "b" on line HintWindow + 2, below empty lines
LongDoc == Newlines(HintWindow + 2) \o <<"b">>

\* editor texts: the empty note, "ab" and LongDoc
StoreDocs == {<<>>, <<"a", "b">>, LongDoc}

\* the texts the user selects to comment on
StoreExacts == {<<"a", "b">>, <<"b">>}

StoreThresholds == {<<0, 1>>, <<1, 2>>}

EngineIdle ==
    /\ target = NoTarget
    /\ docText = <<>>
    /\ threshold = <<0, 1>>
    /\ result = Null
    /\ pc = "store"

InitStore ==
    /\ EngineIdle
    /\ notes = {StorePath}
    /\ mappings = <<>>
    /\ indexFile = <<>>
    /\ cache = <<>>
    /\ files = <<>>
    /\ writeTimers = {}
    /\ nextId = 1
    /\ lastPass = NoPass
    /\ adapterLog = {AdapterOp("mkdir", BasePath)}
    /\ NavIdle
    /\ AsyncIdle

NextStore ==
    \/ \E doc \in StoreDocs, e \in StoreExacts : \E from \in 0..Len(doc) :
          /\ MatchesAt(doc, e, from)
          /\ addCommentFromSelection(StorePath, doc, from, from + Len(e), "x")
    \/ addNoteComment(StorePath, "x")
    \/ \E parentId \in 1..MaxComments : addReply(StorePath, parentId, "x")
    \/ \E doc \in StoreDocs, thr \in StoreThresholds : resolveAnchors(StorePath, doc, thr)

SpecStore == InitStore /\ [][NextStore]_vars

----------------------------------------------------------------------------
(* Repeated passes over a note whose text holds the selected text twice *)

\* "b" on line 0 and on line 2
TwoLineDoc == <<"b", "\n", "\n", "b">>

RepeatDocs == {TwoLineDoc, LongDoc}

NextRepeat ==
    \/ \E doc \in RepeatDocs : \E from \in 0..(Len(doc) - 1) :
          /\ MatchesAt(doc, <<"b">>, from)
          /\ addCommentFromSelection(StorePath, doc, from, from + 1, "x")
    \/ \E doc \in RepeatDocs : resolveAnchors(StorePath, doc, <<0, 1>>)

SpecRepeat == InitStore /\ [][NextRepeat]_vars

----------------------------------------------------------------------------
(* The path index under vault events *)

\* vault paths of markdown notes
NotePaths == {<<"a", "/", "b", ".", "m", "d">>, <<"a", "_", "_", "b", ".", "m", "d">>}

IndexTarget == Target(<<"a">>, <<>>, <<>>, NoHeading, 0)

InitIndex ==
    /\ EngineIdle
    /\ notes = {}
    /\ mappings = <<>>
    /\ indexFile = <<>>
    /\ cache = <<>>
    /\ files = <<>>
    /\ writeTimers = {}
    /\ nextId = 1
    /\ lastPass = NoPass
    /\ adapterLog = {AdapterOp("mkdir", BasePath)}
    /\ NavIdle
    /\ AsyncIdle

NextIndex ==
    \/ \E p \in NotePaths : CreateNote(p)
    \/ \E p \in NotePaths : addComment(p, "x", IndexTarget)
    \/ \E old \in NotePaths, new \in NotePaths : handleRename(old, new)
    \/ \E old \in NotePaths, new \in NotePaths : renameWithPanelRefresh(old, new)
    \/ flushAll
    \/ \E p \in NotePaths, shouldDelete \in BOOLEAN : handleDelete(p, shouldDelete)
    \/ \E p \in NotePaths : SaveTimerFires(p)

SpecIndex == InitIndex /\ [][NextIndex]_vars

----------------------------------------------------------------------------
(* Properties of the store and of the path index *)

\* the comments of the note of the pass that has just completed
PassComments ==
    IF Has(cache, lastPass.path) THEN cache[lastPass.path].comments ELSE <<>>

\* the map the last pass returned: a pass that raised returned none
ReturnedMap == IF lastPass.threw THEN <<>> ELSE lastPass.results

\* C2: immediately after a resolveAnchors pass over a note, every anchored
\* comment of the note is 'active' iff its id is a key of the map the pass
\* returned, and the map holds no id of a note comment or of a reply.
C2_StatusIffResolved ==
    lastPass.kind = "pass" =>
        /\ \A k \in 1..Len(PassComments) :
              LET c == PassComments[k]
              IN  /\ isAnchoredComment(c) =>
                        (c.status = "active" <=> c.id \in DOMAIN ReturnedMap)
                  /\ ~isAnchoredComment(c) => c.id \notin DOMAIN ReturnedMap
        /\ \A id \in DOMAIN ReturnedMap :
              \E k \in 1..Len(PassComments) :
                  PassComments[k].id = id /\ isAnchoredComment(PassComments[k])

\* C2, for the passes that return: a pass that returned a map left every
\* anchored comment 'active' iff its id is a key of the map
C2_ReturnedPassConsistent ==
    (lastPass.kind = "pass" /\ ~lastPass.threw) => C2_StatusIffResolved

\* a pass returned a map that holds one anchored comment and misses another,
\* over a file that also holds a note comment or a reply
C2_ReturnedPassReached ==
    /\ lastPass.kind = "pass"
    /\ ~lastPass.threw
    /\ \E i, j, k \in 1..Len(PassComments) :
          /\ isAnchoredComment(PassComments[i])
          /\ PassComments[i].id \in DOMAIN lastPass.results
          /\ PassComments[i].status = "active"
          /\ isAnchoredComment(PassComments[j])
          /\ PassComments[j].id \notin DOMAIN lastPass.results
          /\ PassComments[j].status = "orphaned"
          /\ ~isAnchoredComment(PassComments[k])

\* no window of the normalized document lies within floor(n * t) edits of
\* the normalized exact
NoFuzzyOccurrence(doc, exact, thr) ==
    LET nn == normalizeWhitespace(exact)
        nh == normalizeWhitespace(doc)
    IN  \A i \in 1..Len(nh) : \A j \in i..Len(nh) :
            EditDistance(nn, SubSeq(nh, i, j)) > FloorOfProduct(Len(nn), thr)

\* C3: once the exact text is gone from the document (no verbatim and no
\* within-threshold occurrence) a resolveAnchors pass leaves the comment
\* 'orphaned', and once the text is back with its recorded context a pass
\* leaves it 'active', whatever the size of the edit and the stored lineHint.
C3_OrphanRestoreCycle ==
    lastPass.kind = "pass" =>
        \A k \in 1..Len(PassComments) :
            LET c == PassComments[k]
                t == c.target
            IN  isAnchoredComment(c) =>
                  /\ ( /\ ~OccursVerbatim(lastPass.docText, t.exact)
                       /\ NoFuzzyOccurrence(lastPass.docText, t.exact, lastPass.threshold) )
                     => c.status = "orphaned"
                  /\ OccursVerbatim(lastPass.docText, t.prefix \o t.exact \o t.suffix)
                     => c.status = "active"

\* the anchored comment at position k of the last pass changed its status or
\* its lineHint in the pass
FieldChanged(k) ==
    /\ isAnchoredComment(lastPass.before[k])
    /\ \/ lastPass.before[k].status # lastPass.after[k].status
       \/ lastPass.before[k].target.lineHint # lastPass.after[k].target.lineHint

\* C17: after a resolveAnchors pass every anchored comment that resolved has
\* target.lineHint equal to the line of its resolved anchor, and every
\* anchored comment that did not resolve has its lineHint as before the pass.
C17_LineHintMaintenance ==
    lastPass.kind = "pass" =>
        \A k \in 1..Len(lastPass.before) :
            LET b == lastPass.before[k]
                a == lastPass.after[k]
            IN  isAnchoredComment(b) =>
                  IF b.id \in DOMAIN lastPass.results
                  THEN a.target.lineHint = lastPass.results[b.id].line
                  ELSE a.target.lineHint = b.target.lineHint

\* C17 witness: one pass moved the hint of a comment that stayed active to the
\* line of its anchor and orphaned another comment, whose hint it kept
C17_Witness ==
    /\ lastPass.kind = "pass"
    /\ ~lastPass.threw
    /\ \E j, k \in 1..Len(lastPass.before) :
          /\ isAnchoredComment(lastPass.before[j])
          /\ lastPass.before[j].id \in DOMAIN lastPass.results
          /\ lastPass.before[j].status = "active"
          /\ lastPass.before[j].target.lineHint # lastPass.after[j].target.lineHint
          /\ lastPass.after[j].target.lineHint = lastPass.results[lastPass.before[j].id].line
          /\ isAnchoredComment(lastPass.before[k])
          /\ lastPass.before[k].id \notin DOMAIN lastPass.results
          /\ lastPass.before[k].status = "active"
          /\ lastPass.after[k].status = "orphaned"
          /\ lastPass.after[k].target.lineHint = lastPass.before[k].target.lineHint

\* C18: a resolveAnchors pass schedules a save for the note if and only if it
\* changed the status or the lineHint of at least one comment.
C18_SaveIffChanged ==
    lastPass.kind = "pass" =>
        (lastPass.scheduled <=> \E k \in 1..Len(lastPass.before) : FieldChanged(k))

\* C18, for the passes that return: a pass that returned a map scheduled a
\* save iff it changed a status or a lineHint
C18_ReturnedPassReports ==
    (lastPass.kind = "pass" /\ ~lastPass.threw) => C18_SaveIffChanged

\* a returning pass that changed a field and scheduled a save
C18_ChangeReported ==
    /\ lastPass.kind = "pass"
    /\ ~lastPass.threw
    /\ lastPass.scheduled
    /\ \E k \in 1..Len(lastPass.before) : FieldChanged(k)

\* a returning pass over anchored comments that changed nothing and scheduled
\* no save
C18_NoChangeNoSave ==
    /\ lastPass.kind = "pass"
    /\ ~lastPass.threw
    /\ ~lastPass.scheduled
    /\ \E k \in 1..Len(lastPass.before) : isAnchoredComment(lastPass.before[k])

\* two maps of resolved anchors hold the same spans for the same comments;
\* the stage tags may differ
SameSpans(m1, m2) ==
    /\ DOMAIN m1 = DOMAIN m2
    /\ \A id \in DOMAIN m1 :
          /\ m1[id].from = m2[id].from
          /\ m1[id].to = m2[id].to
          /\ m1[id].line = m2[id].line

\* C19: running resolveAnchors twice in a row on the same note with the same
\* document text and threshold returns the same map of resolved anchors both
\* times (the same span for every comment), and the second pass changes no
\* comment's status or lineHint and schedules no save.
C19_Idempotent ==
    (lastPass.kind = "pass" /\ lastPass.repeats) =>
        /\ lastPass.threw = lastPass.previous.threw
        /\ ~lastPass.threw => SameSpans(lastPass.results, lastPass.previous.results)
        /\ ~\E k \in 1..Len(lastPass.before) : FieldChanged(k)
        /\ ~lastPass.scheduled

\* no anchored comment of the last pass has its exact text at two places of
\* the document
SingleOccurrences ==
    \A k \in 1..Len(lastPass.before) :
        isAnchoredComment(lastPass.before[k]) =>
            Cardinality({p \in 0..Len(lastPass.docText) :
                MatchesAt(lastPass.docText, lastPass.before[k].target.exact, p)}) <= 1

\* C19 over documents that hold each commented text at most once
C19_IdempotentOnSingleOccurrences ==
    (lastPass.kind = "pass" /\ lastPass.repeats /\ SingleOccurrences) => C19_Idempotent

\* a repeated pass over such a document that resolved a comment, after a first
\* pass that moved its line hint
C19_RepeatReached ==
    /\ lastPass.kind = "pass"
    /\ lastPass.repeats
    /\ SingleOccurrences
    /\ ~lastPass.threw
    /\ \E k \in 1..Len(lastPass.before) :
          /\ isAnchoredComment(lastPass.before[k])
          /\ lastPass.before[k].id \in DOMAIN lastPass.results
          /\ lastPass.results[lastPass.before[k].id].stage = 1
          /\ lastPass.before[k].target.lineHint > HintWindow

\* C10: no two distinct note paths of the path index map to the same
\* comment file name.
C10_OneFilePerNote ==
    \A p \in DOMAIN mappings : \A q \in DOMAIN mappings :
        p # q => mappings[p] # mappings[q]

----------------------------------------------------------------------------
(* Vault events *)

\* the step is the rename of the note oldPath to newPath
IsRename(oldPath, newPath) ==
    /\ oldPath \in notes /\ oldPath \notin notes'
    /\ newPath \notin notes /\ newPath \in notes'

\* C11: after the rename of a note that has comments, getComments(newPath)
\* returns the comments getComments(oldPath) returned before the rename,
\* getComments(oldPath) returns the empty list, and a save under the new
\* path is scheduled when the file was cached.
C11_RenameKeepsComments ==
    [][\A oldPath \in NotePaths : \A newPath \in NotePaths :
          (IsRename(oldPath, newPath) /\ getComments(oldPath) # <<>>) =>
              /\ getComments(newPath)' = getComments(oldPath)
              /\ getComments(oldPath)' = <<>>
              /\ Has(cache, oldPath) => newPath \in writeTimers']_vars

\* C11, for handleRename on its own: the store method moves the comments
\* when no panel refresh reads the comment file during the rename
C11_StoreRenameKeepsComments ==
    [][\A oldPath \in NotePaths : \A newPath \in NotePaths :
          (IsRename(oldPath, newPath) /\ getComments(oldPath) # <<>>
           /\ cache' = (IF Has(cache, oldPath)
                        THEN Put(Remove(cache, oldPath), newPath,
                                 [cache[oldPath] EXCEPT !.sourceFile = newPath])
                        ELSE cache)) =>
              /\ getComments(newPath)' = getComments(oldPath)
              /\ getComments(oldPath)' = <<>>
              /\ Has(cache, oldPath) => newPath \in writeTimers']_vars

\* C12: after handleDelete(notePath, shouldDelete) the path index has no
\* mapping and the cache no entry for notePath, getComments(notePath) is
\* empty, with shouldDelete the comment file of the note is gone, and it
\* stays gone when a save timer that was pending for the note fires later
\* (a file that another note still maps to is that note's to write).
C12_DeleteForgetsNote ==
    lastPass.kind = "delete" =>
        /\ ~Has(mappings, lastPass.path)
        /\ ~Has(cache, lastPass.path)
        /\ getComments(lastPass.path) = <<>>
        /\ ( /\ lastPass.shouldDelete
             /\ lastPass.fileName # <<>>
             /\ ~\E q \in DOMAIN mappings : mappings[q] = lastPass.fileName )
           => ~Has(files, lastPass.fileName)

\* a note with a saved comment file was deleted with shouldDelete while its
\* save timer was pending, and the timer has fired since
C12_Witness ==
    /\ lastPass.kind = "delete"
    /\ lastPass.shouldDelete
    /\ lastPass.pending
    /\ lastPass.fileName # <<>>
    /\ AdapterOp("remove", FilePath(lastPass.fileName)) \in adapterLog
    /\ lastPass.path \notin writeTimers
    /\ ~Has(files, lastPass.fileName)

\* suffix is the end of path
EndsWith(path, suffix) ==
    /\ Len(path) >= Len(suffix)
    /\ SubSeq(path, Len(path) - Len(suffix) + 1, Len(path)) = suffix

\* path is <BasePath>/<name>.json for a name without a directory separator
IsJsonInBase(path) ==
    LET dir == BasePath \o <<"/">>
    IN  /\ Len(path) > Len(dir)
        /\ SubSeq(path, 1, Len(dir)) = dir
        /\ \A i \in (Len(dir) + 1)..Len(path) : path[i] # "/"
        /\ EndsWith(path, <<".", "j", "s", "o", "n">>)

\* C13: every write, remove and mkdir issued to the adapter targets the
\* comments base directory, <BasePath>/<file>.json or <BasePath>/_index.json,
\* and never the path of a markdown note.
C13_WritesStayInBase ==
    \A call \in adapterLog :
        /\ call.op = "mkdir" => call.path = BasePath
        /\ call.op \in {"write", "remove"} => IsJsonInBase(call.path)
        /\ call.path \notin NotePaths
        /\ ~EndsWith(call.path, <<".", "m", "d">>)

\* the index and a comment file were written and a comment file was removed
C13_Witness ==
    /\ AdapterOp("write", IndexPath) \in adapterLog
    /\ \E call \in adapterLog :
          call.op = "write" /\ call.path # IndexPath /\ IsJsonInBase(call.path)
    /\ \E call \in adapterLog : call.op = "remove"
    /\ AdapterOp("mkdir", BasePath) \in adapterLog

----------------------------------------------------------------------------
(* The comment panel over one note: comments are added, edited, toggled,  *)
(* deleted and answered between resolution passes.  The note stays cached, *)
(* so no step here reads the saved file; the save timer runs in SpecIndex. *)

\* editor texts: the empty note and "ab"
EditDocs == {<<>>, <<"a", "b">>}

\* comment bodies: the one typed first and the edited one
EditBodies == {"x", "y"}

NextEdit ==
    \/ addCommentFromSelection(StorePath, <<"a", "b">>, 0, 2, "x")
    \/ addNoteComment(StorePath, "x")
    \/ \E parentId \in 1..MaxComments : addReply(StorePath, parentId, "x")
    \/ \E commentId \in 1..MaxComments : updateComment(StorePath, commentId, "y")
    \/ \E commentId \in 1..MaxComments : toggleResolution(StorePath, commentId)
    \/ \E commentId \in 1..MaxComments : deleteComment(StorePath, commentId)
    \/ \E doc \in EditDocs : resolveAnchors(StorePath, doc, <<0, 1>>)

SpecEdit == InitStore /\ [][NextEdit]_vars

\* the comments of the note in the cache, none when it is not cached
CachedComments(c, notePath) ==
    IF Has(c, notePath) THEN c[notePath].comments ELSE <<>>

\* C14: a step that is not a resolveAnchors pass (updateComment,
\* toggleResolution, addReply, addNoteComment, deleteComment, addComment)
\* leaves the status and the target of every comment that remains in
\* the file unchanged.
C14_OnlyResolutionSetsStatus ==
    [][lastPass'.kind # "pass" =>
          \A i \in 1..Len(CachedComments(cache, StorePath)) :
          \A j \in 1..Len(CachedComments(cache', StorePath)) :
              LET before == CachedComments(cache, StorePath)[i]
                  after  == CachedComments(cache', StorePath)[j]
              IN  before.id = after.id =>
                      /\ after.status = before.status
                      /\ after.target = before.target]_vars

\* an orphaned comment was edited and resolved by the user, and a comment
\* was deleted, since the last pass
C14_Witness ==
    /\ lastPass.kind = "none"
    /\ Len(CachedComments(cache, StorePath)) < nextId - 1
    /\ \E k \in 1..Len(CachedComments(cache, StorePath)) :
          LET c == CachedComments(cache, StorePath)[k]
          IN  /\ isAnchoredComment(c)
              /\ c.status = "orphaned"
              /\ c.body = "y"
              /\ c.resolution = "resolved"

\* the ids of the comments
Ids(comments) == {comments[k].id : k \in 1..Len(comments)}

\* every reply answers an anchored comment of the same file
NoDanglingReply(comments) ==
    \A k \in 1..Len(comments) :
        isReplyComment(comments[k]) =>
            \E j \in 1..Len(comments) :
                /\ isAnchoredComment(comments[j])
                /\ comments[j].id = comments[k].parentId

\* the ids of the replies to the comment with the id
RepliesTo(comments, id) ==
    {comments[k].id : k \in {j \in 1..Len(comments) :
                                isReplyComment(comments[j]) /\ comments[j].parentId = id}}

\* after is before without one comment: without an anchored comment and all
\* of its replies, or without a single reply or note comment
RemovesOneThread(before, after) ==
    \E k \in 1..Len(before) :
        /\ Ids(before) \ Ids(after) =
              IF isAnchoredComment(before[k])
              THEN {before[k].id} \cup RepliesTo(before, before[k].id)
              ELSE {before[k].id}
        /\ after = Filter(before, Ids(after))

\* after is before with comments added behind it, and every reply among
\* them answers an anchored comment of before
AddsOnlyAnsweringReplies(before, after) ==
    /\ SubSeq(after, 1, Len(before)) = before
    /\ \A k \in (Len(before) + 1)..Len(after) :
          isReplyComment(after[k]) =>
              \E j \in 1..Len(before) :
                  isAnchoredComment(before[j]) /\ before[j].id = after[k].parentId

\* C30: no dangling replies.  After every step every reply's parentId is the
\* id of an anchored comment of the same file; a step that removes comments
\* removes an anchored comment with all of its replies and nothing else, or
\* one reply or note comment alone; a step that adds a reply adds it to an
\* anchored comment that is present.
C30_NoDanglingReplies ==
    [][LET before == CachedComments(cache, StorePath)
           after  == CachedComments(cache', StorePath)
       IN  /\ NoDanglingReply(after)
           /\ Len(after) < Len(before) => RemovesOneThread(before, after)
           /\ Len(after) > Len(before) => AddsOnlyAnsweringReplies(before, after)]_vars

\* C30 witness: of a thread and a later comment only the later comment is
\* left
C30_Witness ==
    /\ nextId > MaxComments
    /\ Len(CachedComments(cache, StorePath)) = 1
    /\ CachedComments(cache, StorePath)[1].id = MaxComments
    /\ writeTimers = {StorePath}

----------------------------------------------------------------------------
(* Debounced persistence: the mutations of the store over one note, with    *)
(* the save timer firing between them                                       *)

\* editor texts a comment is made in: "b" on line 0, and LongDoc
SaveSelections == {<<"b">>, LongDoc}

\* editor texts of the resolution passes: the empty note and "b"
SaveDocs == {<<>>, <<"b">>}

NextSave ==
    \/ \E doc \in SaveSelections :
          /\ nextId <= MaxSaved
          /\ addCommentFromSelection(StorePath, doc, Len(doc) - 1, Len(doc), "x")
    \/ \E parentId \in 1..MaxComments :
          /\ nextId <= MaxSaved
          /\ addReply(StorePath, parentId, "x")
    \/ \E commentId \in 1..MaxComments : updateComment(StorePath, commentId, "y")
    \/ \E commentId \in 1..MaxComments : toggleResolution(StorePath, commentId)
    \/ \E commentId \in 1..MaxComments : deleteComment(StorePath, commentId)
    \/ \E doc \in SaveDocs : resolveAnchors(StorePath, doc, <<0, 1>>)
    \/ SaveTimerFires(StorePath)

SpecSave == InitStore /\ [][NextSave]_vars

\* no save of the note is pending and the note is cached
Quiescent(timers, c) == StorePath \notin timers /\ Has(c, StorePath)

\* the comment file last written for the note is the cached CommentFile
Persisted(m, f, c) ==
    /\ Has(m, StorePath)
    /\ Has(f, m[StorePath])
    /\ f[m[StorePath]] = c[StorePath]

\* C26: a note has at most one pending save, and once the save timers have
\* fired after any sequence of mutations of the note (add, reply, update,
\* toggle, delete, the status and lineHint changes of resolveAnchors) the
\* content last written to its comment file is the cached CommentFile.
C26_DebouncedPersistence ==
    Quiescent(writeTimers, cache) => Persisted(mappings, files, cache)

\* the step is a resolveAnchors pass that raised
ThrowingPass == lastPass' # lastPass /\ lastPass'.kind = "pass" /\ lastPass'.threw

\* every step other than a pass that raised leaves the note saved or with a
\* save pending, if it was so before
C26_StepKeepsPersistence ==
    [][((Quiescent(writeTimers, cache) => Persisted(mappings, files, cache))
          /\ ~ThrowingPass)
       => (Quiescent(writeTimers', cache') => Persisted(mappings', files', cache'))]_vars

\* a mutation has been saved by the timer
C26_SavedReached ==
    /\ Quiescent(writeTimers, cache)
    /\ Persisted(mappings, files, cache)
    /\ \E k \in 1..Len(cache[StorePath].comments) :
          cache[StorePath].comments[k].body = "y"

----------------------------------------------------------------------------
(* main.ts: the debounced re-resolution after vault 'modify' events.  The   *)
(* note in the editor is StorePath and docText is its editor text; the      *)
(* gutter and the panel that resolveAndUpdate redraws are not part of the   *)
(* state.                                                                   *)

\* another markdown note of the vault, and a file that is no markdown note
OtherNote == <<"m", ".", "m", "d">>
Attachment == <<"n", ".", "p", "n", "g">>

VaultFiles == {StorePath, OtherNote, Attachment}

\* editor texts of the note
ModifyDocs == {<<>>, <<"b">>, <<"a", "b">>}

\* the note has one comment, on "b" of the text "b", cached and saved
ModifyFile ==
    [sourceFile |-> StorePath,
     comments |-> <<AnchoredComment(1, "x", SelectionTarget(<<"b">>, 0, 1))>>]

InitModify ==
    /\ target = NoTarget
    /\ docText = <<"b">>
    /\ threshold \in StoreThresholds
    /\ result = Null
    /\ pc = "store"
    /\ notes = {StorePath, OtherNote}
    /\ mappings = getOrCreateCommentFileName(<<>>, StorePath)
    /\ indexFile = mappings
    /\ cache = Put(<<>>, StorePath, ModifyFile)
    /\ files = Put(<<>>, mappings[StorePath], ModifyFile)
    /\ writeTimers = {}
    /\ nextId = 2
    /\ lastPass = NoPass
    /\ adapterLog = {AdapterOp("mkdir", BasePath)}
    /\ NavIdle
    /\ tasks = <<>>
    /\ heap = <<>>
    /\ resolveDebounceTimer = NoTimer
    /\ activeFile = StorePath

\* vault.on('modify', file): scheduleResolve(file.path) for a markdown file.
\* A modify event of the note in the editor comes with its new editor text.
Modify(file, text) ==
    /\ docText' = IF file = activeFile THEN text ELSE docText
    /\ resolveDebounceTimer' =
          IF EndsWith(file, <<".", "m", "d">>) THEN file ELSE resolveDebounceTimer
    /\ result' = [kind |-> "modify", path |-> file]
    /\ UNCHANGED <<target, threshold, pc, tasks, heap, activeFile>>
    /\ UNCHANGED <<storeVars, navVars>>

\* the timer of scheduleResolve(filePath) fires: resolveAndUpdate(filePath)
ResolveTimerFires ==
    /\ resolveDebounceTimer # NoTimer
    /\ resolveDebounceTimer' = NoTimer
    /\ result' = [kind |-> "resolveAndUpdate", path |-> resolveDebounceTimer]
    /\ IF activeFile = resolveDebounceTimer
       THEN ResolvePass(resolveDebounceTimer, docText, threshold)
       ELSE UNCHANGED storeVars
    /\ UNCHANGED <<target, docText, threshold, pc, tasks, heap, activeFile>>
    /\ UNCHANGED navVars

NextModify ==
    \/ \E file \in VaultFiles, text \in ModifyDocs : Modify(file, text)
    \/ ResolveTimerFires
    \/ SaveTimerFires(StorePath)

SpecModify == InitModify /\ [][NextModify]_vars

\* a re-resolution of the note in the editor is pending
Pending(timer) == timer = activeFile

\* C27: a pending re-resolution of the note in the editor is not lost: a
\* modify event of another markdown file does not cancel it, so that it
\* runs against the latest editor text once the modify events stop.
C27_ResolutionNotLost ==
    [][(Pending(resolveDebounceTimer) /\ result'.kind = "modify")
          => Pending(resolveDebounceTimer')]_vars

\* a modify event of the note itself, or of a file that is no markdown
\* note, leaves the re-resolution pending
C27_OwnModifyKeepsPending ==
    [][(/\ Pending(resolveDebounceTimer)
        /\ result'.kind = "modify"
        /\ result'.path \in {activeFile, Attachment})
          => Pending(resolveDebounceTimer')]_vars

\* the timer armed for the note in the editor, when it fires, runs
\* resolveAnchors for the note against the editor text of that moment
C27_FiringResolvesLatest ==
    [][(Pending(resolveDebounceTimer) /\ resolveDebounceTimer' = NoTimer)
          => /\ lastPass'.kind = "pass"
             /\ lastPass'.path = activeFile
             /\ lastPass'.docText = docText']_vars

\* a pass has run from the timer against an edited text
C27_ResolvedReached ==
    /\ result.kind = "resolveAndUpdate"
    /\ result.path = activeFile
    /\ lastPass.kind = "pass"
    /\ lastPass.docText = <<"a", "b">>
    /\ docText = <<"a", "b">>

----------------------------------------------------------------------------
(* Store calls started together on one note.  Each call runs from one await *)
(* to the next in one step; the steps of different calls interleave.  The   *)
(* Map holds object references: in this specification cache[notePath] is    *)
(* the position in heap of the cached CommentFile.                          *)

\* a call before its first step
Task(op) == [op |-> op, pc |-> "start", file |-> 0, returned |-> 0]

\* the comment file of the note as it may be on disk before the calls start
DiskFile == [sourceFile |-> StorePath,
             comments |-> <<AnchoredComment(1, <<"x">>, NoTarget)>>]

InitRace ==
    /\ EngineIdle
    /\ NavIdle
    /\ notes = {StorePath}
    /\ nextId = 2
    /\ writeTimers = {}
    /\ lastPass = NoPass
    /\ adapterLog = {AdapterOp("mkdir", BasePath)}
    /\ tasks \in [1..MaxTasks -> {Task("addComment"), Task("getComments")}]
    /\ resolveDebounceTimer = NoTimer
    /\ activeFile = StorePath
    /\ \/ \* the note has no comment file yet
          /\ mappings = <<>> /\ indexFile = <<>> /\ files = <<>>
          /\ cache = <<>> /\ heap = <<>>
       \/ \* the comment file is on disk and not cached
          /\ mappings = getOrCreateCommentFileName(<<>>, StorePath)
          /\ indexFile = mappings
          /\ files = Put(<<>>, mappings[StorePath], DiskFile)
          /\ cache = <<>> /\ heap = <<>>
       \/ \* the comment file is cached
          /\ mappings = getOrCreateCommentFileName(<<>>, StorePath)
          /\ indexFile = mappings
          /\ files = Put(<<>>, mappings[StorePath], DiskFile)
          /\ heap = <<DiskFile>> /\ cache = Put(<<>>, StorePath, 1)

\* loadCommentFile up to its first await, or to its return
LoadStart(t) ==
    /\ tasks[t].pc = "start"
    /\ tasks' = [tasks EXCEPT
                   ![t].pc = IF Has(cache, StorePath) THEN "loaded"
                             ELSE IF ~Has(mappings, StorePath) THEN "absent"
                             ELSE "exists",
                   ![t].file = IF Has(cache, StorePath) THEN cache[StorePath] ELSE 0]
    /\ UNCHANGED <<heap, resolveDebounceTimer, activeFile>>
    /\ UNCHANGED <<engineVars, storeVars, navVars>>

\* await adapter.exists(filePath)
LoadExists(t) ==
    /\ tasks[t].pc = "exists"
    /\ tasks' = [tasks EXCEPT
                   ![t].pc = IF Has(files, mappings[StorePath]) THEN "read" ELSE "absent"]
    /\ UNCHANGED <<heap, resolveDebounceTimer, activeFile>>
    /\ UNCHANGED <<engineVars, storeVars, navVars>>

\* await adapter.read(filePath); JSON.parse gives a new object; cache.set
LoadRead(t) ==
    /\ tasks[t].pc = "read"
    /\ heap' = Append(heap, files[mappings[StorePath]])
    /\ cache' = Put(cache, StorePath, Len(heap) + 1)
    /\ tasks' = [tasks EXCEPT ![t].pc = "loaded", ![t].file = Len(heap) + 1]
    /\ UNCHANGED <<resolveDebounceTimer, activeFile>>
    /\ UNCHANGED <<notes, mappings, indexFile, files, writeTimers, nextId, lastPass,
                   adapterLog>>
    /\ UNCHANGED <<engineVars, navVars>>

\* getOrCreateCommentFile after loadCommentFile gave null:
\* getOrCreateCommentFileName and the start of pathIndex.save()
CreateStart(t) ==
    /\ tasks[t].pc = "absent"
    /\ tasks[t].op = "addComment"
    /\ mappings' = getOrCreateCommentFileName(mappings, StorePath)
    /\ indexFile' = mappings'
    /\ adapterLog' = adapterLog \cup {AdapterOp("write", IndexPath)}
    /\ tasks' = [tasks EXCEPT ![t].pc = "saving"]
    /\ UNCHANGED <<heap, resolveDebounceTimer, activeFile>>
    /\ UNCHANGED <<notes, cache, files, writeTimers, nextId, lastPass>>
    /\ UNCHANGED <<engineVars, navVars>>

\* getOrCreateCommentFile after await pathIndex.save(): a new empty
\* CommentFile; cache.set
CreateDone(t) ==
    /\ tasks[t].pc = "saving"
    /\ heap' = Append(heap, [sourceFile |-> StorePath, comments |-> <<>>])
    /\ cache' = Put(cache, StorePath, Len(heap) + 1)
    /\ tasks' = [tasks EXCEPT ![t].pc = "loaded", ![t].file = Len(heap) + 1]
    /\ UNCHANGED <<resolveDebounceTimer, activeFile>>
    /\ UNCHANGED <<notes, mappings, indexFile, files, writeTimers, nextId, lastPass,
                   adapterLog>>
    /\ UNCHANGED <<engineVars, navVars>>

\* addComment after await getOrCreateCommentFile: file.comments.push,
\* scheduleSave, return comment
PushStep(t) ==
    /\ tasks[t].pc = "loaded"
    /\ tasks[t].op = "addComment"
    /\ heap' = [heap EXCEPT ![tasks[t].file].comments =
                    Append(@, AnchoredComment(nextId, <<"x">>, NoTarget))]
    /\ writeTimers' = writeTimers \cup {StorePath}
    /\ nextId' = nextId + 1
    /\ tasks' = [tasks EXCEPT ![t].pc = "done", ![t].returned = nextId]
    /\ UNCHANGED <<resolveDebounceTimer, activeFile>>
    /\ UNCHANGED <<notes, mappings, indexFile, cache, files, lastPass, adapterLog>>
    /\ UNCHANGED <<engineVars, navVars>>

\* getComments after await loadCommentFile: return file?.comments ?? []
ReturnComments(t) ==
    /\ tasks[t].pc \in {"loaded", "absent"}
    /\ tasks[t].op = "getComments"
    /\ tasks' = [tasks EXCEPT ![t].pc = "done"]
    /\ UNCHANGED <<heap, resolveDebounceTimer, activeFile>>
    /\ UNCHANGED <<engineVars, storeVars, navVars>>

NextRace ==
    \E t \in 1..MaxTasks :
        \/ LoadStart(t)
        \/ LoadExists(t)
        \/ LoadRead(t)
        \/ CreateStart(t)
        \/ CreateDone(t)
        \/ PushStep(t)
        \/ ReturnComments(t)

SpecRace == InitRace /\ [][NextRace]_vars

----------------------------------------------------------------------------
(* Properties of store calls started together *)

AllDone == tasks # <<>> /\ \A t \in DOMAIN tasks : tasks[t].pc = "done"

\* the ids of the comments of the CommentFile the cache holds for the note
CachedIds ==
    IF Has(cache, StorePath)
    THEN {heap[cache[StorePath]].comments[k].id :
            k \in 1..Len(heap[cache[StorePath]].comments)}
    ELSE {}

\* C25: once all store calls started together on a note have completed,
\* every comment an addComment call has returned is in the CommentFile the
\* cache holds for the note.
C25_NoLostUpdate ==
    AllDone => \A t \in DOMAIN tasks :
                  tasks[t].returned # 0 => tasks[t].returned \in CachedIds

\* the calls lose nothing when they all work on one CommentFile object, as
\* they do when the note was cached before they started
C25_OneObjectNoLoss ==
    (AllDone /\ Len(heap) = 1)
        => \A t \in DOMAIN tasks :
              tasks[t].returned # 0 => tasks[t].returned \in CachedIds

C25_OneObjectReached ==
    /\ AllDone
    /\ Len(heap) = 1
    /\ \A t \in DOMAIN tasks : tasks[t].returned # 0
    /\ Len(heap[1].comments) = 1 + MaxTasks

----------------------------------------------------------------------------
(* Comment navigation: findNavigationTarget and navigateComment *)

MaxAnchors == 3
MaxOffset == 3

\* one entry of the map of resolved anchors
Entry(id, anchor) == [id |-> id, anchor |-> anchor]

\* the entry put behind the entries of sorted whose from is not larger
InsertByFrom(sorted, e) ==
    LET k == Cardinality({i \in 1..Len(sorted) : sorted[i].anchor.from <= e.anchor.from})
    IN  SubSeq(sorted, 1, k) \o <<e>> \o SubSeq(sorted, k + 1, Len(sorted))

\* [...anchors.entries()].sort((a, b) => a[1].from - b[1].from): the sort is
\* stable, entries of equal from keep the order of the map
RECURSIVE SortByFrom(_)
SortByFrom(entries) ==
    IF entries = <<>> THEN <<>>
    ELSE InsertByFrom(SortByFrom(SubSeq(entries, 1, Len(entries) - 1)),
                      entries[Len(entries)])

\* [...sorted].reverse()
Reverse(seq) == [i \in 1..Len(seq) |-> seq[Len(seq) + 1 - i]]

\* find with a test that also accepts the anchor under the cursor
FindAfter_NotStrict(sorted, currentOffset) ==
    LET hits == {i \in 1..Len(sorted) : sorted[i].anchor.from >= currentOffset}
    IN  IF hits = {} THEN 0 ELSE CHOOSE i \in hits : \A j \in hits : i <= j

\* sorted.find(([, a]) => a.from > currentOffset), 0 for undefined
FindAfter(sorted, currentOffset) ==
    LET hits == {i \in 1..Len(sorted) : sorted[i].anchor.from > currentOffset}
    IN  IF hits = {} THEN 0 ELSE CHOOSE i \in hits : \A j \in hits : i <= j

\* reversed.find(([, a]) => a.from < currentOffset), 0 for undefined
FindBefore(reversed, currentOffset) ==
    LET hits == {i \in 1..Len(reversed) : reversed[i].anchor.from < currentOffset}
    IN  IF hits = {} THEN 0 ELSE CHOOSE i \in hits : \A j \in hits : i <= j

findNavigationTarget(entries, currentOffset, direction) ==
    LET sorted   == SortByFrom(entries)
        reversed == Reverse(sorted)
        after    == FindAfter(sorted, currentOffset)
        before   == FindBefore(reversed, currentOffset)
    IN  IF Len(entries) = 0 THEN Null
        ELSE IF direction = "next"
        THEN (IF after # 0 THEN sorted[after].anchor ELSE sorted[1].anchor)
        ELSE (IF before # 0 THEN reversed[before].anchor
              ELSE sorted[Len(sorted)].anchor)

\* anchors as resolution returns them: a start offset and an end one or two
\* characters later
NavAnchors ==
    {Anchor(span[1], span[1] + span[2], 0, 2) : span \in (0..MaxOffset) \X (1..2)}

\* maps of up to MaxAnchors resolved anchors, the comment ids in map order
NavMaps ==
    UNION {{[i \in 1..n |-> Entry(i, f[i])] : f \in [1..n -> NavAnchors]} :
              n \in 0..MaxAnchors}

InitNav ==
    /\ target = NoTarget
    /\ docText = <<>>
    /\ threshold = <<0, 1>>
    /\ result = Null
    /\ pc = "nav"
    /\ StoreIdle
    /\ AsyncIdle
    /\ anchors \in NavMaps
    /\ cursor \in 0..(MaxOffset + 1)

\* the 'next comment' / 'previous comment' command: the cursor is set to the
\* start of the target, and nothing moves when there is no anchor
navigateComment(direction) ==
    LET found == findNavigationTarget(anchors, cursor, direction)
    IN  /\ result' = [kind |-> "nav", direction |-> direction,
                      currentOffset |-> cursor, target |-> found]
        /\ cursor' = IF found = Null THEN cursor ELSE found.from
        /\ pc' = "navigated"
        /\ UNCHANGED <<target, docText, threshold, anchors>>
        /\ UNCHANGED <<storeVars, asyncVars>>

NextNav == \E direction \in {"next", "prev"} : navigateComment(direction)

SpecNav == InitNav /\ [][NextNav]_vars

\* the start offsets of the anchors
Froms == {anchors[i].anchor.from : i \in 1..Len(anchors)}

MinOf(S) == CHOOSE x \in S : \A y \in S : x <= y
MaxOf(S) == CHOOSE x \in S : \A y \in S : x >= y

\* C15: navigation returns null only when there is no anchor; 'next' goes to
\* the smallest start offset above the cursor and wraps to the smallest one,
\* 'prev' goes to the largest start offset below the cursor and wraps to the
\* largest one, and the cursor is moved to the start returned.
C15_NavigationOrder ==
    result.kind = "nav" =>
        LET above == {f \in Froms : f > result.currentOffset}
            below == {f \in Froms : f < result.currentOffset}
        IN  /\ result.target = Null <=> anchors = <<>>
            /\ anchors # <<>> =>
                  /\ \E i \in 1..Len(anchors) : anchors[i].anchor = result.target
                  /\ cursor = result.target.from
                  /\ result.direction = "next" =>
                        result.target.from =
                            IF above # {} THEN MinOf(above) ELSE MinOf(Froms)
                  /\ result.direction = "prev" =>
                        result.target.from =
                            IF below # {} THEN MaxOf(below) ELSE MaxOf(Froms)

\* 'next' wrapped from the last start offset to the first of three anchors,
\* two of which start at the same offset
C15_Witness ==
    /\ result.kind = "nav"
    /\ result.direction = "next"
    /\ Len(anchors) = 3
    /\ Cardinality(Froms) = 2
    /\ result.currentOffset = MaxOf(Froms)
    /\ cursor = MinOf(Froms)

====
